---------------------------- MODULE Spec2Model ----------------------------
(***************************************************************************)
(* Model of the text-to-Cypher core of the Graph RAG pipeline:             *)
(*   - QueryGenerator.generate_with_refinement, the generate / validate /  *)
(*     repair loop (text_2_cypher/query_refinement.py);                    *)
(*   - DataManager / LRUDataManager, the LRU cache store built on          *)
(*     cachetools.LRUCache (cache_method/data_manager.py, cache.py);       *)
(*   - the cache key computed by process_question (graph_rag_workflow.py). *)
(* Each component has its own specification over the shared variables; the *)
(* variables of the other components stay at their initial values.         *)
(***************************************************************************)
EXTENDS Integers, Sequences, FiniteSets, TLC

VARIABLES
    \* ---- QueryGenerator (query_refinement.py) ----
    max_iterations,   \* self.max_iterations, fixed by __init__
    pc,               \* position inside generate_with_refinement
    iteration,        \* the for-loop variable
    current_query,    \* local current_query ("None" is Python's None)
    error_msg,        \* local error_msg
    query_history,    \* local query_history
    calls,            \* collaborator calls made by the current invocation
    ret,              \* the tuple handed back by the return statement
    outcome,          \* which return statement was reached
    prev,             \* what the previous invocation handed back
    \* ---- DataManager / LRUDataManager (data_manager.py, cache.py) ----
    constructed,      \* a DataManager object exists
    cache_size,       \* the cache_size argument of __init__
    maxsize,          \* self.cache.maxsize
    store,            \* self.cache: key -> value (a value is its repr)
    order,            \* recency order of self.cache, least recent first
    trace,            \* the operations performed on the object so far
    result,           \* what the last get_data returned
    \* ---- cache keys of process_question (graph_rag_workflow.py) ----
    req,              \* per request: the question and the pruned schema
    keys,             \* per request: the hashed answer and query keys
    \* ---- CypherPostProcessor (build/lib/post_processor.py) ----
    rules_applied,    \* self.rules_applied
    pp_query,         \* the argument of the latest process call
    pp_result,        \* what the latest process call returned
    pp_steps,         \* per rule of the latest call: its input and output
    pp_calls,         \* number of process calls so far
    \* ---- ExemplarSelector (text_2_cypher/exemplar_selector.py) ----
    exemplars,        \* self.exemplars
    similarities,     \* local similarities of the latest select_top_k call
    sel_k,            \* the argument k of the latest call
    top_k_indices,    \* local top_k_indices of the latest call
    selected,         \* the list the latest call returned
    sel_returned,     \* a select_top_k call has ended
    sel_raised,       \* the exception the latest call raised, "None" if none
    \* ---- the coordinators (graph_rag_workflow.py, advanced_demo_workflow.py,
    \*      graph_rag.py) ----
    co_kind,          \* which coordinator serves the requests
    co_pc,            \* position inside the coordinator
    co_question,      \* the question of the current request
    co_schema,        \* its pruned schema
    co_key,           \* the cache key that was looked up
    cache_status,     \* "HIT" or "MISS" for the query lookup
    generated_query,  \* what generate_with_refinement returned
    final_query,      \* the query the request ends with
    co_history,       \* local query_history of the coordinator
    applied_rules,    \* local applied_rules
    co_work,          \* the steps of the current request, in order
    co_outcome,       \* "returned", or the exception the request ended with
    co_served,        \* one record per finished request
    \* ---- MemoryEfficientCache (cache_method/memory_efficient_cache.py) ----
    compression_threshold,  \* self.compression_threshold
    max_context_items,      \* self.max_context_items
    stats,            \* self.stats, without the two timers
    mec_last,         \* per cached key, the value the latest set_data was given
    mec_key,          \* the key of the latest get_data, "" before the first
    mec_got,          \* what the latest get_data returned
    mec_ops,           \* number of calls so far
    \* ---- requests sharing one CypherPostProcessor ----
    sh_pc,            \* per request, its position in process / get_applied_rules
    sh_query,         \* per request, the generated query it rewrites
    sh_text,          \* per request, the local variable query of process
    sh_rules,          \* per request, what get_applied_rules returned to it
    \* ---- requests sharing one DataManager ----
    currsize,         \* the cache's own count of its entries
    cc_pc,            \* per request thread, its position in get_data / set_data
    cc_key,           \* per thread, the key of its request
    cc_value,         \* per thread, the query it synthesized
    cc_diff,          \* per thread, the local diffsize of the item assignment
    cc_found,         \* per thread, what get_data returned
    cc_raised,        \* per thread, the exception its latest call raised
    cc_started,       \* number of requests started
    cc_sets           \* the set_data calls that have returned, in that order

synthVars == <<max_iterations, pc, iteration, current_query, error_msg,
               query_history, calls, ret, outcome, prev>>

cacheVars == <<constructed, cache_size, maxsize, store, order, trace, result>>

keyVars == <<req, keys>>

rewriteVars == <<rules_applied, pp_query, pp_result, pp_steps, pp_calls>>

selectVars == <<exemplars, similarities, sel_k, top_k_indices, selected,
                sel_returned, sel_raised>>

pipeVars == <<co_kind, co_pc, co_question, co_schema, co_key, cache_status,
              generated_query, final_query, co_history, applied_rules,
              co_work, co_outcome, co_served>>

mecVars == <<compression_threshold, max_context_items, stats, mec_last,
             mec_key, mec_got, mec_ops>>

shareVars == <<sh_pc, sh_query, sh_text, sh_rules>>

concVars == <<currsize, cc_pc, cc_key, cc_value, cc_diff, cc_found, cc_raised, cc_started, cc_sets>>

vars == <<synthVars,
         cacheVars,
         keyVars,
         rewriteVars,
         selectVars,
         pipeVars,
         mecVars,
         shareVars,
         concVars>>

---------------------------------------------------------------------------
(* Bounds *)

MaxIterations == 3

Queries == {"q1", "q2"}

Errors == {"e1", "e2"}

MaxCapacity == 2

MaxOps == 4

Keys == {"k1", "k2", "k3"}

Values == {"'v1'", "'v2'"}

Questions == {"q1", "q2"}

Requests == {1, 2}

MaxProcessCalls == 2

DefaultMaxIterations == 3

\* calls of the MemoryEfficientCache
MaxMecOps == 3

\* requests of the concurrent threads, in total
MaxConcRequests == 3

\* largest max_context_items
MaxContextItems == 3

\* the compression thresholds, in bytes
Thresholds == {0, 4, 100}

MaxExemplars == 3

ExemplarIds == <<"ex1", "ex2", "ex3", "ex4">>

Similarities == {0, 1, 2}

\* the largest magnitude of a negative k
MaxNegativeK == 2

MaxK == 4

---------------------------------------------------------------------------
(* QueryGenerator.generate_with_refinement *)

None == "None"

NoReturn == <<>>

\* One collaborator call: the generator (op "gen"), the repairer (op "rep",
\* with the original_query and error_message it was given) or the validator
\* (op "val", with the query it was given and its verdict).
CallRec(op, argq, arge, out, valid) ==
    [op |-> op, arg_query |-> argq, arg_err |-> arge, out_query |-> out,
     valid |-> valid]

\* Faulty variant: a loop that runs one iteration more.
InRangeInclusive(it, n) == it <= n

\* range(self.max_iterations): the loop runs its body for iteration it
InRange(it, n) == it < n

\* Faulty variant: the verdict is ignored.
AcceptsNever(is_valid) == FALSE

\* if is_valid: the test that ends the loop early
Accepts(is_valid) == is_valid

\* Faulty variant: every iteration generates afresh.
LoopBodyAlwaysGenerate(it) == "generate"

\* the branch taken by the loop body
LoopBody(it) == IF it = 0 THEN "generate" ELSE "repair"

\* return current_query, query_history
ReturnValue(q, h) == <<q, h>>

SynthIdle ==
    /\ max_iterations = 0
    /\ pc = "idle"
    /\ iteration = 0
    /\ current_query = None
    /\ error_msg = None
    /\ query_history = <<>>
    /\ calls = <<>>
    /\ ret = NoReturn
    /\ outcome = "none"
    /\ prev = [ret |-> NoReturn, outcome |-> "none"]

\* QueryGenerator.__init__
SynthInit ==
    /\ max_iterations \in 0..MaxIterations
    /\ pc = "idle"
    /\ iteration = 0
    /\ current_query = None
    /\ error_msg = None
    /\ query_history = <<>>
    /\ calls = <<>>
    /\ ret = NoReturn
    /\ outcome = "none"
    /\ prev = [ret |-> NoReturn, outcome |-> "none"]

\* Entry of generate_with_refinement: the locals are reset and the for loop
\* is entered; an empty range falls through to the final return.
Call ==
    /\ pc \in {"idle", "done"}
    /\ prev' = [ret |-> ret, outcome |-> outcome]
    /\ query_history' = <<>>
    /\ current_query' = None
    /\ error_msg' = None
    /\ iteration' = 0
    /\ calls' = <<>>
    /\ IF InRange(0, max_iterations)
          THEN /\ pc' = LoopBody(0)
               /\ ret' = NoReturn
               /\ outcome' = "none"
          ELSE /\ pc' = "done"
               /\ ret' = ReturnValue(None, <<>>)
               /\ outcome' = "Failed"
    /\ UNCHANGED max_iterations

\* self.text2cypher(...), then query_history.append(current_query)
Generate ==
    /\ pc = "generate"
    /\ \E q \in Queries :
          /\ current_query' = q
          /\ query_history' = Append(query_history, q)
          /\ calls' = Append(calls, CallRec("gen", None, None, q, FALSE))
    /\ pc' = "validate"
    /\ UNCHANGED <<max_iterations, iteration, error_msg, ret, outcome, prev>>

\* Faulty variant: the repairer is handed the first query of the history
\* instead of the latest one.
RepairFirstQuery ==
    /\ pc = "repair"
    /\ \E q \in Queries :
          /\ current_query' = q
          /\ query_history' = Append(query_history, q)
          /\ calls' = Append(calls,
                         CallRec("rep", query_history[1], error_msg, q, FALSE))
    /\ pc' = "validate"
    /\ UNCHANGED <<max_iterations, iteration, error_msg, ret, outcome, prev>>

\* self.repair(original_query=current_query, error_message=error_msg, ...),
\* then query_history.append(current_query)
Repair ==
    /\ pc = "repair"
    /\ \E q \in Queries :
          /\ current_query' = q
          /\ query_history' = Append(query_history, q)
          /\ calls' = Append(calls,
                         CallRec("rep", current_query, error_msg, q, FALSE))
    /\ pc' = "validate"
    /\ UNCHANGED <<max_iterations, iteration, error_msg, ret, outcome, prev>>

\* Faulty variant: an exhausted budget starts the synthesis over.
ValidateRetryForever ==
    /\ pc = "validate"
    /\ \E is_valid \in BOOLEAN, e \in Errors :
          IF is_valid
             THEN /\ error_msg' = None
                  /\ calls' = Append(calls,
                        CallRec("val", current_query, None, None, TRUE))
                  /\ pc' = "done"
                  /\ ret' = ReturnValue(current_query, query_history)
                  /\ outcome' = "Valid"
                  /\ UNCHANGED <<iteration, query_history, current_query>>
             ELSE IF InRange(iteration + 1, max_iterations)
                     THEN /\ error_msg' = e
                          /\ calls' = Append(calls,
                                CallRec("val", current_query, e, None, FALSE))
                          /\ iteration' = iteration + 1
                          /\ pc' = LoopBody(iteration + 1)
                          /\ UNCHANGED <<ret, outcome, query_history,
                                         current_query>>
                     ELSE /\ error_msg' = None
                          /\ calls' = <<>>
                          /\ iteration' = 0
                          /\ query_history' = <<>>
                          /\ current_query' = None
                          /\ pc' = LoopBody(0)
                          /\ UNCHANGED <<ret, outcome>>
    /\ UNCHANGED <<max_iterations, prev>>

\* is_valid, error_msg = validate_cypher(self.conn, current_query), then
\* either the return inside the loop, the next iteration, or the return
\* after the loop.
Validate ==
    /\ pc = "validate"
    /\ \E is_valid \in BOOLEAN, e \in Errors :
          LET err == IF is_valid THEN None ELSE e IN
          /\ error_msg' = err
          /\ calls' = Append(calls,
                         CallRec("val", current_query, err, None, is_valid))
          /\ IF Accepts(is_valid)
                THEN /\ pc' = "done"
                     /\ ret' = ReturnValue(current_query, query_history)
                     /\ outcome' = "Valid"
                     /\ UNCHANGED iteration
                ELSE IF InRange(iteration + 1, max_iterations)
                        THEN /\ iteration' = iteration + 1
                             /\ pc' = LoopBody(iteration + 1)
                             /\ UNCHANGED <<ret, outcome>>
                        ELSE /\ iteration' = iteration
                             /\ pc' = "done"
                             /\ ret' = ReturnValue(current_query, query_history)
                             /\ outcome' = "Failed"
    /\ UNCHANGED <<max_iterations, query_history, current_query, prev>>

\* ---- collaborators that fail ----

\* str(e) of an exception that is not about the query: the database or the
\* language model cannot be reached
Unavailable == "Unavailable"

\* self.text2cypher(...) raises: nothing in generate_with_refinement
\* catches, the exception leaves the call.
GenerateRaises ==
    /\ pc = "generate"
    /\ calls' = Append(calls, CallRec("gen", None, None, Unavailable, FALSE))
    /\ pc' = "done"
    /\ ret' = NoReturn
    /\ outcome' = "Raised"
    /\ UNCHANGED <<max_iterations, iteration, current_query, error_msg,
                   query_history, prev>>

\* self.repair(...) raises: the exception leaves the call.
RepairRaises ==
    /\ pc = "repair"
    /\ calls' = Append(calls, CallRec("rep", current_query, error_msg,
                                      Unavailable, FALSE))
    /\ pc' = "done"
    /\ ret' = NoReturn
    /\ outcome' = "Raised"
    /\ UNCHANGED <<max_iterations, iteration, current_query, error_msg,
                   query_history, prev>>

\* conn.execute(f"EXPLAIN {query}") raises for a reason other than the
\* query: validate_cypher's "except RuntimeError" or "except Exception"
\* returns (False, str(e)), and the loop goes on as after a rejection.
ValidateUnavailable ==
    /\ pc = "validate"
    /\ error_msg' = Unavailable
    /\ calls' = Append(calls,
                   CallRec("val", current_query, Unavailable, None, FALSE))
    /\ IF InRange(iteration + 1, max_iterations)
          THEN /\ iteration' = iteration + 1
               /\ pc' = LoopBody(iteration + 1)
               /\ UNCHANGED <<ret, outcome>>
          ELSE /\ iteration' = iteration
               /\ pc' = "done"
               /\ ret' = ReturnValue(current_query, query_history)
               /\ outcome' = "Failed"
    /\ UNCHANGED <<max_iterations, query_history, current_query, prev>>

---------------------------------------------------------------------------
(* DataManager / LRUDataManager over cachetools.LRUCache *)

\* repr() of a str without quote characters
Repr(str) == "'" \o str \o "'"

\* LRUDataManager._hash: sha256(repr(data).encode()).hexdigest(); the digest
\* is kept symbolic, one digest per hashed text.
Hash(data_repr) == "sha256(" \o data_repr \o ")"

EmptyStore == [k \in {} |-> None]

\* Faulty variant: a cache one entry larger than asked for.
CreateOversized(max_size) == max_size + 1

\* LRUCache(maxsize=max_size)
create_data_manager_cache(max_size) == max_size

\* The records handed to process_record.
Records ==
    {[key |-> "r1",
      value |-> [value |-> "'x'", answer |-> "'a'", embedding |-> "[0.1]"]]}

\* LRUDataManager.process_value: the dict that is stored
process_value(retrieved_value, answer, embedding) ==
    "{'retrieved_value': " \o retrieved_value \o ", 'answer': " \o answer
        \o ", 'embedding': " \o embedding \o "}"

Remove(seq, k) == SelectSeq(seq, LAMBDA x : x # k)

\* LRUCache.__update: move_to_end(key), or a new last position
Touch(ord, k) == Append(Remove(ord, k), k)

\* Cache.__setitem__'s "while currsize + size > maxsize: popitem()", where
\* LRUCache.popitem removes the first key of the recency order.
RECURSIVE Evict(_, _, _)
Evict(st, ord, limit) ==
    IF Cardinality(DOMAIN st) + 1 > limit /\ ord # <<>>
       THEN Evict([k \in DOMAIN st \ {ord[1]} |-> st[k]], Tail(ord), limit)
       ELSE [store |-> st, order |-> ord]

\* self.cache[key] = value: ValueError when the value alone exceeds maxsize,
\* else room is made for a new key, the value is stored and the key becomes
\* the most recent.
CacheSetItem(st, ord, limit, key, value) ==
    IF 1 > limit
       THEN [store |-> st, order |-> ord, raised |-> "ValueError"]
       ELSE LET room == IF key \in DOMAIN st
                           THEN [store |-> st, order |-> ord]
                           ELSE Evict(st, ord, limit)
            IN  [store |-> [k \in DOMAIN room.store \cup {key} |->
                               IF k = key THEN value ELSE room.store[k]],
                 order |-> Touch(room.order, key),
                 raised |-> "none"]

\* Faulty variant: a lookup that leaves the recency order alone.
CacheGetNoPromote(st, ord, key) ==
    IF key \in DOMAIN st
       THEN [value |-> st[key], order |-> ord, raised |-> "none"]
       ELSE [value |-> None, order |-> ord, raised |-> "none"]

\* Faulty variant: self.cache[key], which raises for an absent key.
CacheGetRaising(st, ord, key) ==
    IF key \in DOMAIN st
       THEN [value |-> st[key], order |-> Touch(ord, key), raised |-> "none"]
       ELSE [value |-> None, order |-> ord, raised |-> "KeyError"]

\* self.cache.get(key): the default None for an absent key, else
\* self.cache[key], which makes the key the most recent.
CacheGet(st, ord, key) ==
    IF key \in DOMAIN st
       THEN [value |-> st[key], order |-> Touch(ord, key), raised |-> "none"]
       ELSE [value |-> None, order |-> ord, raised |-> "none"]

OpRec(name, key, hit, evicted, raised) ==
    [name |-> name, key |-> key, hit |-> hit, evicted |-> evicted,
     raised |-> raised]

CacheInit ==
    /\ constructed = FALSE
    /\ cache_size = 0
    /\ maxsize = 0
    /\ store = EmptyStore
    /\ order = <<>>
    /\ trace = <<>>
    /\ result = None

\* DataManager.__init__ / LRUDataManager.__init__
Create ==
    /\ ~constructed
    /\ \E c \in (-1)..MaxCapacity :
          /\ cache_size' = c
          /\ maxsize' = create_data_manager_cache(c)
    /\ constructed' = TRUE
    /\ store' = EmptyStore
    /\ order' = <<>>
    /\ UNCHANGED <<trace, result>>

\* The effect of self.cache[key] = value, logged under the caller's name.
Store(name, key, value) ==
    LET r == CacheSetItem(store, order, maxsize, key, value)
        gone == DOMAIN store \ DOMAIN r.store
    IN  /\ store' = r.store
        /\ order' = r.order
        /\ trace' = Append(trace,
              OpRec(name, key, key \in DOMAIN store,
                    IF gone = {} THEN None ELSE CHOOSE k \in gone : TRUE,
                    r.raised))
        /\ UNCHANGED <<constructed, cache_size, maxsize, result>>

\* DataManager.set_data
set_data ==
    /\ constructed
    /\ Len(trace) < MaxOps
    /\ \E key \in Keys, value \in Values : Store("set_data", key, value)

\* DataManager.get_data
get_data ==
    /\ constructed
    /\ Len(trace) < MaxOps
    /\ \E key \in Keys \cup {Hash(Repr(rec.key)) : rec \in Records} :
          LET r == CacheGet(store, order, key) IN
          /\ order' = r.order
          /\ result' = IF r.raised = "none" THEN r.value ELSE result
          /\ trace' = Append(trace,
                OpRec("get_data", key, key \in DOMAIN store, None, r.raised))
          /\ UNCHANGED <<constructed, cache_size, maxsize, store>>

\* LRUDataManager.process_record
process_record ==
    /\ constructed
    /\ Len(trace) < MaxOps
    /\ \E record \in Records :
          LET key == record.key
              value == record.value
              hashed_key == Hash(Repr(key))
              stored_value ==
                  process_value(value.value, value.answer, value.embedding)
          IN  Store("process_record", hashed_key, stored_value)

---------------------------------------------------------------------------
(* Cache keys: process_question, step 1 *)

\* A JSON-serialisable Python value: a str, a dict (its items in insertion
\* order) or a list (its elements, kept as items with an empty key).
Str(a) == [kind |-> "str", atom |-> a, items |-> <<>>]

Dict(items) == [kind |-> "dict", atom |-> "", items |-> items]

List(elems) ==
    [kind |-> "list", atom |-> "",
     items |-> [i \in 1..Len(elems) |-> <<"", elems[i]>>]]

\* The dictionary keys of the modelled schemas, in lexicographic order.
KeyOrder == <<"edges", "name", "nodes", "type">>

Rank(k) == CHOOSE i \in 1..Len(KeyOrder) : KeyOrder[i] = k

\* sorted(dct.items()): selection of the smallest remaining key first
RECURSIVE SortItems(_)
SortItems(items) ==
    IF items = <<>> THEN <<>>
    ELSE LET m == CHOOSE i \in 1..Len(items) :
                     \A j \in 1..Len(items) : Rank(items[i][1]) <= Rank(items[j][1])
         IN  <<items[m]>> \o
             SortItems([i \in 1..(Len(items) - 1) |->
                           IF i < m THEN items[i] ELSE items[i + 1]])

\* json.dumps(obj, sort_keys=...) with the default separators
RECURSIVE JsonDumps(_, _)
RECURSIVE JsonItems(_, _, _)
JsonItems(items, is_dict, sort_keys) ==
    IF items = <<>> THEN ""
    ELSE (IF is_dict THEN "\"" \o items[1][1] \o "\": " ELSE "")
         \o JsonDumps(items[1][2], sort_keys)
         \o (IF Len(items) > 1 THEN ", " ELSE "")
         \o JsonItems(Tail(items), is_dict, sort_keys)

JsonDumps(obj, sort_keys) ==
    CASE obj.kind = "str" -> "\"" \o obj.atom \o "\""
      [] obj.kind = "dict" ->
            "{" \o JsonItems(IF sort_keys THEN SortItems(obj.items)
                                          ELSE obj.items, TRUE, sort_keys)
                \o "}"
      [] obj.kind = "list" -> "[" \o JsonItems(obj.items, FALSE, sort_keys) \o "]"

\* Faulty variant: json.dumps(pruned_schema)
SchemaStrUnsorted(pruned_schema) == JsonDumps(pruned_schema, FALSE)

\* schema_str = json.dumps(pruned_schema, sort_keys=True)
SchemaStr(pruned_schema) == JsonDumps(pruned_schema, TRUE)

\* base_cache_key = f"{question}|{schema_str}"
BaseCacheKey(question, pruned_schema) ==
    question \o "|" \o SchemaStr(pruned_schema)

\* hashed_answer_key = lru_cache_manager._hash(f"answer|{base_cache_key}")
HashedAnswerKey(question, pruned_schema) ==
    Hash(Repr("answer|" \o BaseCacheKey(question, pruned_schema)))

\* hashed_query_key = lru_cache_manager._hash(f"query|{base_cache_key}")
HashedQueryKey(question, pruned_schema) ==
    Hash(Repr("query|" \o BaseCacheKey(question, pruned_schema)))

\* The pruned schemas a request may carry: the values of "nodes" and
\* "edges" are a str, a property dict in either key order, or a list of one
\* property dict.
PropertyDicts ==
    {Dict(<< <<"name", Str("n")>>, <<"type", Str("t")>> >>),
     Dict(<< <<"type", Str("t")>>, <<"name", Str("n")>> >>)}

SchemaValues ==
    {Str("n")} \cup PropertyDicts \cup {List(<<d>>) : d \in PropertyDicts}

Schemas ==
    {Dict(<<>>)}
    \cup {Dict(<< <<k, v>> >>) : k \in {"nodes", "edges"}, v \in SchemaValues}
    \cup {Dict(<< <<"nodes", v>>, <<"edges", w>> >>) :
             v \in SchemaValues, w \in SchemaValues}
    \cup {Dict(<< <<"edges", w>>, <<"nodes", v>> >>) :
             v \in SchemaValues, w \in SchemaValues}

NoKeys == [answer |-> "", query |-> ""]

KeyIdle ==
    /\ req = [r \in Requests |-> [question |-> "q1", pruned_schema |-> Dict(<<>>)]]
    /\ keys = [r \in Requests |-> NoKeys]

\* The requests that arrive: any question with any pruned schema.
KeyInit ==
    /\ req \in [Requests -> [question : Questions, pruned_schema : Schemas]]
    /\ keys = [r \in Requests |-> NoKeys]

\* process_question, lines 238-242 and 276-277, for request r
ComputeKeys(r) ==
    /\ keys' = [keys EXCEPT ![r] =
                   [answer |-> HashedAnswerKey(req[r].question,
                                               req[r].pruned_schema),
                    query |-> HashedQueryKey(req[r].question,
                                             req[r].pruned_schema)]]
    /\ UNCHANGED req

---------------------------------------------------------------------------
(* CypherPostProcessor (build/lib/post_processor.py)                       *)
(*                                                                         *)
(* A query text is a sequence of tokens.  A token is one whitespace        *)
(* character, one punctuation character, or a maximal run of word          *)
(* characters (\w+), so that the regular expressions of the rules match    *)
(* token by token.  The pattern literal of line 26 is read as the          *)
(* character classes it spells: ['"] and [^'"]+.                           *)

Spaces == {" ", "\n"}

Quotes == {"'", "\""}

Puncts == {"(", ")", "[", "]", ":", "-", ">", "<", ".", ",", "="} \cup Quotes

NumberTokens == {"0", "1", "2"}

IsSpace(t) == t \in Spaces

\* \w+ : a token that is neither whitespace nor punctuation
IsWord(t) == t # "" /\ t \notin Spaces /\ t \notin Puncts

\* [a-z]\w* under re.IGNORECASE: a word that starts with a letter
IsVar(t) == IsWord(t) /\ t \notin NumberTokens

\* str.lower() on the tokens that occur in the query texts
Lower(t) ==
    CASE t = "MATCH" -> "match"
      [] t = "WHERE" -> "where"
      [] t = "RETURN" -> "return"
      [] t = "CALL" -> "call"
      [] t = "AS" -> "as"
      [] t = "LOWER" -> "lower"
      [] t = "CONTAINS" -> "contains"
      [] t = "WON" -> "won"
      [] t = "Scholar" -> "scholar"
      [] t = "Prize" -> "prize"
      [] t = "Physics" -> "physics"
      [] t = "Cambridge" -> "cambridge"
      [] t = "knownName" -> "knownname"
      [] t = "fullName" -> "fullname"
      [] t = "awardYear" -> "awardyear"
      [] t = "prizeAmount" -> "prizeamount"
      [] t = "expandConfig" -> "expandconfig"
      [] t = "APOC" -> "apoc"
      [] OTHER -> t

LowerAll(s) == [k \in 1..Len(s) |-> Lower(s[k])]

\* the token at position i, "" outside the text
At(s, i) == IF i >= 1 /\ i <= Len(s) THEN s[i] ELSE ""

RECURSIVE SkipSpaces(_, _)
\* \s* from position i: the first position that holds no whitespace
SkipSpaces(s, i) ==
    IF i <= Len(s) /\ IsSpace(s[i]) THEN SkipSpaces(s, i + 1) ELSE i

RECURSIVE Find(_, _, _)
\* the first position >= i whose token is in S, 0 when there is none
Find(s, i, S) ==
    IF i > Len(s) THEN 0
    ELSE IF s[i] \in S THEN i
    ELSE Find(s, i + 1, S)

RECURSIVE Join(_)
\* the text as one string
Join(s) == IF s = <<>> THEN "" ELSE s[1] \o Join(Tail(s))

RECURSIVE MergeWords(_)
\* word characters that became adjacent form one word
MergeWords(s) ==
    IF Len(s) < 2 THEN s
    ELSE IF IsWord(s[1]) /\ IsWord(s[2])
         THEN MergeWords(<<s[1] \o s[2]>> \o Tail(Tail(s)))
         ELSE <<s[1]>> \o MergeWords(Tail(s))

Applied(text, rules) == [text |-> text, rules |-> rules]

\* ---- Rule 1: enforce_lowercase_contains ----

NameLikeEveryProperty(prop) == TRUE

\* prop.lower() in ['name', 'knownname', 'fullname']
NameLike(prop) == Lower(prop) \in {"name", "knownname", "fullname"}

\* WHERE\s+(\w+)\.(\w+)\s*=\s*['"]([^'"]+)['"] at position i:
\* the position of the closing quote, 0 when the pattern does not match
WhereMatch(s, i) ==
    LET v == SkipSpaces(s, i + 1)
        e == SkipSpaces(s, v + 3)
        q == SkipSpaces(s, e + 1)
        c == Find(s, q + 1, Quotes)
    IN IF /\ Lower(At(s, i)) = "where"
          /\ v > i + 1
          /\ IsWord(At(s, v)) /\ At(s, v + 1) = "." /\ IsWord(At(s, v + 2))
          /\ At(s, e) = "="
          /\ At(s, q) \in Quotes
          /\ c > q + 1
       THEN c ELSE 0

\* replace_match: the replacement of one match
replace_match(s, i) ==
    LET v == SkipSpaces(s, i + 1)
        q == SkipSpaces(s, SkipSpaces(s, v + 3) + 1)
        c == WhereMatch(s, i)
    IN IF NameLike(s[v + 2])
       THEN <<"WHERE", " ", "LOWER", "(", s[v], ".", s[v + 2], ")",
              " ", "CONTAINS", " ", "'">>
            \o LowerAll(SubSeq(s, q + 1, c - 1)) \o <<"'">>
       ELSE SubSeq(s, i, c)

RECURSIVE WhereSub(_, _)
\* re.sub(pattern, replace_match, query) from position i on
WhereSub(s, i) ==
    IF i > Len(s) THEN <<>>
    ELSE IF WhereMatch(s, i) = 0 THEN <<s[i]>> \o WhereSub(s, i + 1)
         ELSE replace_match(s, i) \o WhereSub(s, WhereMatch(s, i) + 1)

RECURSIVE WhereRules(_, _)
\* the entries replace_match appends during that re.sub
WhereRules(s, i) ==
    IF i > Len(s) THEN <<>>
    ELSE IF WhereMatch(s, i) = 0 THEN WhereRules(s, i + 1)
         ELSE (IF NameLike(s[SkipSpaces(s, i + 1) + 2])
               THEN <<"lowercase_contains">> ELSE <<>>)
              \o WhereRules(s, WhereMatch(s, i) + 1)

enforce_lowercase_contains(query) ==
    Applied(WhereSub(query, 1), WhereRules(query, 1))

\* ---- Rule 2: expand_node_returns ----

RECURSIVE MoreVarsOk(_, _)
\* (?:,\s*([a-z]\w*)\s*)*$ matches from position j on
MoreVarsOk(s, j) ==
    IF j > Len(s) THEN TRUE
    ELSE /\ s[j] = ","
         /\ IsVar(At(s, SkipSpaces(s, j + 1)))
         /\ MoreVarsOk(s, SkipSpaces(s, SkipSpaces(s, j + 1) + 1))

RECURSIVE MoreVars(_, _)
\* the variables that repetition runs over
MoreVars(s, j) ==
    IF j > Len(s) THEN <<>>
    ELSE <<s[SkipSpaces(s, j + 1)]>>
         \o MoreVars(s, SkipSpaces(s, SkipSpaces(s, j + 1) + 1))

\* RETURN\s+([a-z]\w*)\s*(?:,\s*([a-z]\w*)\s*)*$ at position i
ReturnMatch(s, i) ==
    LET v == SkipSpaces(s, i + 1)
    IN /\ Lower(At(s, i)) = "return"
       /\ v > i + 1
       /\ IsVar(At(s, v))
       /\ MoreVarsOk(s, SkipSpaces(s, v + 1))

GroupsEveryVariable(s, i) ==
    LET v == SkipSpaces(s, i + 1)
    IN <<s[v]>> \o MoreVars(s, SkipSpaces(s, v + 1))

\* match.groups() without the empty ones: the first variable and the last
\* repetition of the second group
Groups(s, i) ==
    LET v == SkipSpaces(s, i + 1)
        more == MoreVars(s, SkipSpaces(s, v + 1))
    IN IF more = <<>> THEN <<s[v]>> ELSE <<s[v], more[Len(more)]>>

\* the properties one variable is expanded to
Expanded(var) ==
    IF var \in {"s", "s1", "s2", "scholar"}
    THEN <<var, ".", "knownName">>
    ELSE IF var \in {"p", "p1", "prize"}
         THEN <<var, ".", "category", ",", " ", var, ".", "awardYear">>
         ELSE <<var, ".", "name">>

RECURSIVE JoinExpanded(_)
\* ", ".join(expanded)
JoinExpanded(variables) ==
    IF Len(variables) = 1 THEN Expanded(variables[1])
    ELSE Expanded(variables[1]) \o <<",", " ">> \o JoinExpanded(Tail(variables))

expand_node_returns(query) ==
    LET starts == {i \in 1..Len(query) : ReturnMatch(query, i)}
    IN IF starts = {} THEN Applied(query, <<>>)
       ELSE LET i == CHOOSE k \in starts : \A m \in starts : k <= m
            IN Applied(SubSeq(query, 1, i - 1) \o <<"RETURN", " ">>
                       \o JoinExpanded(Groups(query, i)),
                       <<"expand_return">>)

\* ---- Rule 3: remove_apoc_calls ----

\* 'apoc.' in query.lower()
HasApoc(s) == \E i \in 1..Len(s) : Lower(s[i]) = "apoc" /\ At(s, i + 1) = "."

\* apoc\.\w+\([^)]*\) at position i: the position of the closing
\* parenthesis, 0 when the pattern does not match
ApocMatch(s, i) ==
    LET c == Find(s, i + 4, {")"})
    IN IF /\ Lower(At(s, i)) = "apoc"
          /\ At(s, i + 1) = "."
          /\ IsWord(At(s, i + 2))
          /\ At(s, i + 3) = "("
       THEN c ELSE 0

RECURSIVE ApocSub(_, _)
\* re.sub(r'apoc\.\w+\([^)]*\)', '', query) from position i on
ApocSub(s, i) ==
    IF i > Len(s) THEN <<>>
    ELSE IF ApocMatch(s, i) = 0 THEN <<s[i]>> \o ApocSub(s, i + 1)
         ELSE ApocSub(s, ApocMatch(s, i) + 1)

remove_apoc_calls(query) ==
    IF HasApoc(query)
    THEN Applied(MergeWords(ApocSub(query, 1)), <<"remove_apoc">>)
    ELSE Applied(query, <<>>)

\* ---- Rule 4: fix_property_names ----

\* (?=.*Scholar): "Scholar" follows on the same line
ScholarAhead(s, i) ==
    \E k \in (i + 1)..Len(s) :
        s[k] = "Scholar" /\ \A m \in (i + 1)..k : s[m] # "\n"

\* \.<wrong>\b, for .name only before a later "Scholar"
FixMatch(s, i, wrong) ==
    /\ i > 1
    /\ s[i - 1] = "." /\ s[i] = wrong
    /\ (wrong = "name" => ScholarAhead(s, i))

\* one entry of corrections: re.search, then re.sub
FixOne(r, wrong, correct) ==
    IF \E i \in 1..Len(r.text) : FixMatch(r.text, i, wrong)
    THEN Applied([i \in 1..Len(r.text) |->
                     IF FixMatch(r.text, i, wrong) THEN correct
                     ELSE r.text[i]],
                 r.rules \o <<"fix_property">>)
    ELSE r

\* the corrections dictionary, in insertion order
Corrections ==
    << <<"name", "knownName">>, <<"amount", "prizeAmount">>,
       <<"year", "awardYear">> >>

RECURSIVE FixAll(_, _)
\* for pattern, replacement in corrections.items()
FixAll(corrections, r) ==
    IF corrections = <<>> THEN r
    ELSE CHOOSE fixed \in
             { FixAll(Tail(corrections), r1) :
                 r1 \in {FixOne(r, corrections[1][1], corrections[1][2])} } :
             TRUE

fix_property_names(query) == FixAll(Corrections, Applied(query, <<>>))

\* ---- Rule 5: clean_whitespace ----

RECURSIVE SplitJoin(_, _, _)
\* ' '.join(query.split()) from position i on
SplitJoin(s, i, started) ==
    IF i > Len(s) THEN <<>>
    ELSE IF IsSpace(s[i]) THEN SplitJoin(s, i + 1, started)
    ELSE (IF started /\ IsSpace(s[i - 1]) THEN <<" ">> ELSE <<>>)
         \o <<s[i]>> \o SplitJoin(s, i + 1, TRUE)

CleanWhitespaceKeepRuns(query) == Applied(query, <<"clean_whitespace">>)

clean_whitespace(query) ==
    Applied(SplitJoin(query, 1, FALSE), <<"clean_whitespace">>)

\* ---- process ----

Step(rule, before, after) ==
    [rule |-> rule, before |-> before, after |-> after.text,
     rules |-> after.rules]

\* the rule calls of lines 11-15, in that order
RuleOrder ==
    <<"enforce_lowercase_contains", "expand_node_returns",
      "remove_apoc_calls", "fix_property_names", "clean_whitespace">>

\* query = self.<rule>(query)
ApplyRule(rule, query) ==
    CASE rule = "enforce_lowercase_contains" -> enforce_lowercase_contains(query)
      [] rule = "expand_node_returns" -> expand_node_returns(query)
      [] rule = "remove_apoc_calls" -> remove_apoc_calls(query)
      [] rule = "fix_property_names" -> fix_property_names(query)
      [] rule = "clean_whitespace" -> clean_whitespace(query)

RECURSIVE RunRules(_, _)
\* each rule on the text the one before it returned
RunRules(rules, query) ==
    IF rules = <<>> THEN <<>>
    ELSE CHOOSE steps \in
             { <<Step(rules[1], query, r)>> \o RunRules(Tail(rules), r.text) :
                 r \in {ApplyRule(rules[1], query)} } :
             TRUE

ProcessSteps(query) == RunRules(RuleOrder, query)

RECURSIVE RulesOf(_)
RulesOf(steps) ==
    IF steps = <<>> THEN <<>> ELSE steps[1].rules \o RulesOf(Tail(steps))

\* ---- query texts ----

ScenarioMatch ==
    <<"MATCH", " ", "(", "s", ":", "Scholar", ")", "-", "[", ":", "WON", "]",
      "-", ">", "(", "p", ":", "Prize", ")">>

MatchClauses ==
    { ScenarioMatch,
      <<"CALL", " ", "apoc", ".", "path", ".", "expandConfig", "(", ")">> }

Separators == { <<" ">>, <<"\n">> }

ScenarioWhere ==
    <<"WHERE", " ", "p", ".", "category", " ", "=", " ", "'", "Physics", "'">>

NameWhere ==
    <<"where", " ", " ", "n", ".", "name", "=", "\"", "Cambridge", " ", " ",
      "Physics", "\"">>

SecondMatch == <<"\n", "MATCH", " ", "(", "s", ":", "Scholar", ")">>

WhereClauses ==
    { <<>>, ScenarioWhere, NameWhere, NameWhere \o SecondMatch }

ScenarioReturn == <<"RETURN", " ", "s">>

ReturnClauses ==
    { ScenarioReturn,
      <<"RETURN", " ", "s", ",", " ", "p">>,
      <<"RETURN", " ", "a", ",", " ", "b", ",", " ", "c", "\n">>,
      <<"RETURN", " ", "n", " ", "apoc", ".", "f", "(", "n", ")">>,
      <<"RETURN", " ", "n", ".", "name", ",", " ", "p", ".", "amount", ",",
        " ", "p", ".", "year">> }

\* clause, separator, clause, without a separator next to an empty clause
Glue(a, sep, b) == IF a = <<>> \/ b = <<>> THEN a \o b ELSE a \o sep \o b

QueryTexts ==
    { Glue(Glue(m, sep, w), sep, r) :
        m \in MatchClauses, sep \in Separators, w \in WhereClauses,
        r \in ReturnClauses }

\* the end-to-end scenario
ScenarioQuery ==
    ScenarioMatch \o <<" ">> \o ScenarioWhere \o <<" ">> \o ScenarioReturn

\* ---- the CypherPostProcessor object ----

\* __init__: self.rules_applied = []
RewriteIdle ==
    /\ rules_applied = <<>>
    /\ pp_query = <<>>
    /\ pp_result = <<>>
    /\ pp_steps = <<>>
    /\ pp_calls = 0

\* process(query): clears rules_applied, runs the five rules, returns the
\* text of the last one
Processing(query, steps) ==
    /\ pp_calls < MaxProcessCalls
    /\ pp_steps' = steps
    /\ rules_applied' = <<>> \o RulesOf(steps)
    /\ pp_result' = steps[Len(steps)].after
    /\ pp_query' = query
    /\ pp_calls' = pp_calls + 1

process(query) == \E steps \in {ProcessSteps(query)} : Processing(query, steps)

\* a call on a query text
ProcessQuery == \E x \in QueryTexts : process(x)

\* a call on the text the previous call returned
ProcessAgain == pp_calls > 0 /\ process(pp_result)

---------------------------------------------------------------------------
(* ExemplarSelector (text_2_cypher/exemplar_selector.py,                   *)
(* exemplar_selector_neural.py, build/lib/exemplar_selector.py)            *)
(*                                                                         *)
(* The embedding and the cosine similarity are collaborators: a call sees  *)
(* one similarity value per stored exemplar.                               *)

\* the exemplar lists an index can be constructed from, in insertion order
ExemplarLists == {SubSeq(ExemplarIds, 1, n) : n \in 1..MaxExemplars}

IndexOrders(n) ==
    {p \in [1..n -> 1..n] : \A i, j \in 1..n : i # j => p[i] # p[j]}

\* np.argsort(similarities): the indices in ascending order of similarity.
\* The default sort kind is not stable, so equal similarities come out in
\* any order.
ArgSort(sims) ==
    {p \in IndexOrders(Len(sims)) :
        \A i, j \in 1..Len(sims) : i < j => sims[p[i]] <= sims[p[j]]}

\* a[start:] for a Python sequence
SliceFrom(a, start) ==
    LET first == IF start < 0
                 THEN (IF Len(a) + start < 0 THEN 0 ELSE Len(a) + start)
                 ELSE (IF start > Len(a) THEN Len(a) ELSE start)
    IN SubSeq(a, first + 1, Len(a))

\* a[::-1]
Reversed(a) == [i \in 1..Len(a) |-> a[Len(a) + 1 - i]]

\* np.argsort(similarities)[-k:][::-1], for one outcome of the sort
TopKIndices(sorted, k) == Reversed(SliceFrom(sorted, 0 - k))

\* __init__: self.exemplars = exemplars
SelectIdle ==
    /\ exemplars = <<>>
    /\ similarities = <<>>
    /\ sel_k = 0
    /\ top_k_indices = <<>>
    /\ selected = <<>>
    /\ sel_returned = FALSE
    /\ sel_raised = None

SelectInit ==
    /\ exemplars \in ExemplarLists
    /\ similarities = <<>>
    /\ sel_k = 0
    /\ top_k_indices = <<>>
    /\ selected = <<>>
    /\ sel_returned = FALSE
    /\ sel_raised = None

\* select_top_k(question, k): the question shows in the similarities only
select_top_k(sims, k) ==
    /\ \E sorted \in ArgSort(sims) :
          /\ top_k_indices' = TopKIndices(sorted, k)
          /\ selected' = [i \in 1..Len(TopKIndices(sorted, k)) |->
                             exemplars[TopKIndices(sorted, k)[i]]]
    /\ similarities' = sims
    /\ sel_k' = k
    /\ sel_returned' = TRUE
    /\ sel_raised' = None
    /\ UNCHANGED exemplars

SelectTopK ==
    \E sims \in [1..Len(exemplars) -> Similarities], k \in (0 - MaxNegativeK)..MaxK :
        select_top_k(sims, k)

---------------------------------------------------------------------------
(* The coordinators: process_question (graph_rag_workflow.py), the         *)
(* pipeline cell (advanced_demo_workflow.py) and EnhancedGraphRAG.run_query*)
(* (graph_rag.py).  Requests are served one after the other.               *)

Coordinators == {"process_question", "pipeline_cell", "run_query"}

\* the schemas of the requests: pruned schema dicts, and for run_query the
\* input_schema string
SchemasOf(kind) ==
    IF kind = "run_query" THEN {Str("schema1"), Str("schema2")}
    ELSE {Dict(<<>>), Dict(<< <<"nodes", Str("n")>> >>)}

\* LRUDataManager(cache_size=128), graph_rag.py: cache_size=256
CacheSizeOf(kind) == IF kind = "run_query" THEN 256 ELSE 128

\* the text of a generated query
QueryText(q) ==
    IF q = "q1" THEN ScenarioQuery
    ELSE Glue(Glue(ScenarioMatch, <<"\n">>, NameWhere), <<"\n">>,
              <<"RETURN", " ", "n", " ", "apoc", ".", "f", "(", "n", ")">>)

\* post_processor.process on each generated query
ProcessedQueries == [q \in Queries |-> ProcessSteps(QueryText(q))]

\* the key a coordinator looks up and stores under
LookupKey(kind, q, schema) ==
    CASE kind = "process_question" -> HashedQueryKey(q, schema)
      [] kind = "pipeline_cell" -> Hash(Repr(BaseCacheKey(q, schema)))
      [] kind = "run_query" -> BaseCacheKey(q, schema)

\* the values the coordinators store: the rewritten query text (pipeline
\* cell), or a dict around it
StoredText(query) ==
    [type |-> "str", query |-> query, history |-> <<>>, rules |-> <<>>,
     results |-> None]

StoredDict(query, history, rules, results) ==
    [type |-> "dict", query |-> query, history |-> history, rules |-> rules,
     results |-> results]

\* other Python objects a cache entry may hold: a list (its elements in
\* history), an int (its repr in query) and None
StoredList(elems) ==
    [type |-> "list", query |-> "", history |-> elems, rules |-> <<>>,
     results |-> None]

StoredInt(number_repr) ==
    [type |-> "int", query |-> number_repr, history |-> <<>>, rules |-> <<>>,
     results |-> None]

StoredNone ==
    [type |-> "NoneType", query |-> "", history |-> <<>>, rules |-> <<>>,
     results |-> None]

\* the truth value of a cached object: a str or a list is true unless
\* empty, an int unless 0, None is false, a dict with keys is true
Truthy(value) ==
    CASE value.type = "str" -> value.query # ""
      [] value.type = "list" -> value.history # <<>>
      [] value.type = "int" -> value.query # "0"
      [] value.type = "NoneType" -> FALSE
      [] OTHER -> TRUE

\* "if cached_...:" after get_data(key)
IsHit(key) == key \in DOMAIN store /\ Truthy(store[key])

\* The record of a finished request; recorded counts the record_hit and
\* record_miss calls the request made on benchmark_stats.
Served(status, how, steps, ops, validated, text, recorded) ==
    [question |-> co_question, schema |-> co_schema, key |-> co_key,
     status |-> status, outcome |-> how, work |-> steps, ops |-> ops,
     validated |-> validated, final |-> text, recorded |-> recorded]

OpsOf(cs) == [i \in 1..Len(cs) |-> cs[i].op]

PipeIdle ==
    /\ co_kind = "none"
    /\ co_pc = "idle"
    /\ co_question = ""
    /\ co_schema = Dict(<<>>)
    /\ co_key = ""
    /\ cache_status = None
    /\ generated_query = None
    /\ final_query = None
    /\ co_history = <<>>
    /\ applied_rules = <<>>
    /\ co_work = <<>>
    /\ co_outcome = "none"
    /\ co_served = <<>>

\* main(): the collaborators are constructed, the cache is empty
PipeInit ==
    /\ co_kind \in Coordinators
    /\ co_pc = "idle"
    /\ co_question = ""
    /\ co_schema = Dict(<<>>)
    /\ co_key = ""
    /\ cache_status = None
    /\ generated_query = None
    /\ final_query = None
    /\ co_history = <<>>
    /\ applied_rules = <<>>
    /\ co_work = <<>>
    /\ co_outcome = "none"
    /\ co_served = <<>>
    /\ constructed = TRUE
    /\ cache_size = CacheSizeOf(co_kind)
    /\ maxsize = create_data_manager_cache(CacheSizeOf(co_kind))
    /\ store = EmptyStore
    /\ order = <<>>
    /\ trace = <<>>
    /\ result = None
    /\ max_iterations = DefaultMaxIterations
    /\ pc = "idle"
    /\ iteration = 0
    /\ current_query = None
    /\ error_msg = None
    /\ query_history = <<>>
    /\ calls = <<>>
    /\ ret = NoReturn
    /\ outcome = "none"
    /\ prev = [ret |-> NoReturn, outcome |-> "none"]

\* A request arrives: the key is computed and looked up.  A hit takes the
\* cached query; process_question then goes on to run it, the other two
\* coordinators return.  A miss goes on to the exemplar selection.
\* process_question first looks up the answer key (lines 245-268), whose
\* hit branch stops at the undefined name hashed_key of line 254.
Lookup(q, schema) ==
    LET key == LookupKey(co_kind, q, schema)
        answer_key == HashedAnswerKey(q, schema)
        answer_hit == co_kind = "process_question" /\ IsHit(answer_key)
        after_answer == IF co_kind = "process_question"
                        THEN CacheGet(store, order, answer_key).order
                        ELSE order
        hit == IsHit(key)
    IN /\ co_pc \in {"idle", "done"}
       /\ Len(co_served) < Cardinality(Requests)
       /\ co_question' = q
       /\ co_schema' = schema
       /\ co_key' = key
       /\ generated_query' = None
       /\ IF answer_hit
          THEN /\ order' = after_answer
               /\ cache_status' = None
               /\ final_query' = None
               /\ co_history' = <<>>
               /\ applied_rules' = <<>>
               /\ co_work' = <<"lookup">>
               /\ co_outcome' = "NameError"
               /\ co_pc' = "done"
               /\ co_served' = co_served
          ELSE /\ order' = CacheGet(store, after_answer, key).order
               /\ cache_status' = IF hit THEN "HIT" ELSE "MISS"
               /\ final_query' = IF hit THEN store[key].query ELSE None
               /\ co_history' = IF hit THEN store[key].history ELSE <<>>
               /\ applied_rules' = IF hit THEN store[key].rules ELSE <<>>
               /\ co_work' = <<"lookup">>
               /\ IF hit /\ co_kind # "process_question"
                  THEN /\ co_outcome' = "returned"
                       /\ co_pc' = "done"
                       /\ co_served' = Append(co_served,
                              [question |-> q, schema |-> schema, key |-> key,
                               status |-> "HIT", outcome |-> "returned",
                               work |-> <<"lookup">>, ops |-> <<>>,
                               validated |-> FALSE,
                               final |-> store[key].query, recorded |-> 0])
                  ELSE /\ co_outcome' = "none"
                       /\ co_pc' = IF hit THEN "execute" ELSE "select"
                       /\ co_served' = co_served
       /\ UNCHANGED <<co_kind, constructed, cache_size, maxsize, store, trace,
                      result>>

Receive == \E q \in Questions, schema \in SchemasOf(co_kind) : Lookup(q, schema)

\* exemplar_selector.select_top_k(question, k), then the entry of
\* query_generator.generate_with_refinement
SelectAndSynthesize ==
    /\ co_pc = "select"
    /\ Call
    /\ co_work' = Append(co_work, "select")
    /\ co_pc' = "synth"
    /\ UNCHANGED <<co_kind, co_question, co_schema, co_key, cache_status,
                   generated_query, final_query, co_history, applied_rules,
                   co_outcome, co_served>>

\* generate_with_refinement has returned: the query is rewritten
\* (post_processor.process, get_applied_rules) and, in process_question and
\* the pipeline cell, stored under the key that was looked up; the pipeline
\* cell is then finished.
RewriteAndStore ==
    /\ co_pc = "synth"
    /\ pc = "done"
    /\ generated_query' = ret[1]
    /\ Processing(QueryText(ret[1]), ProcessedQueries[ret[1]])
    /\ final_query' = Join(pp_result')
    /\ co_history' = IF co_kind = "run_query" THEN <<>> ELSE ret[2]
    /\ applied_rules' = IF co_kind = "run_query" THEN <<>> ELSE rules_applied'
    /\ IF co_kind = "run_query"
       THEN /\ UNCHANGED <<store, order>>
            /\ co_work' = co_work \o <<"synth", "rewrite">>
       ELSE /\ \E value \in
                  { IF co_kind = "pipeline_cell"
                    THEN StoredText(final_query')
                    ELSE StoredDict(final_query', ret[2], rules_applied',
                                    None) } :
                  /\ store' = CacheSetItem(store, order, maxsize, co_key,
                                           value).store
                  /\ order' = CacheSetItem(store, order, maxsize, co_key,
                                           value).order
            /\ co_work' = co_work \o <<"synth", "rewrite", "store">>
    /\ IF co_kind = "pipeline_cell"
       THEN /\ co_outcome' = "returned"
            /\ co_pc' = "done"
            /\ co_served' = Append(co_served,
                   Served(cache_status, "returned", co_work', OpsOf(calls),
                          outcome = "Valid", final_query', 0))
       ELSE /\ co_outcome' = "none"
            /\ co_pc' = "execute"
            /\ co_served' = co_served
    /\ UNCHANGED <<co_kind, co_question, co_schema, co_key, cache_status,
                   constructed, cache_size, maxsize, trace, result>>

\* conn.execute(final_query), which succeeds or raises RuntimeError.
\* process_question: after a successful run the answer is generated and
\* line 390 names the undefined hashed_key, before the answer is stored and
\* before benchmark_stats.record_miss (line 412); after a RuntimeError the
\* function returns its output, and records nothing either.  run_query: a successful run stores query
\* and results under the key (line 308), and the function returns.
Execute ==
    /\ co_pc = "execute"
    /\ \E ok \in BOOLEAN :
          LET was_miss == cache_status = "MISS"
              ops == IF was_miss THEN OpsOf(calls) ELSE <<>>
              valid == was_miss /\ outcome = "Valid"
          IN IF co_kind = "process_question"
             THEN /\ co_work' = co_work \o (IF ok THEN <<"execute", "answer">>
                                            ELSE <<"execute">>)
                  /\ co_outcome' = IF ok THEN "NameError" ELSE "returned"
                  /\ co_served' = Append(co_served,
                         Served(cache_status, co_outcome', co_work', ops,
                                valid, final_query, 0))
                  /\ UNCHANGED <<store, order>>
             ELSE /\ co_work' = co_work \o (IF ok THEN <<"execute", "store">>
                                            ELSE <<"execute">>)
                  /\ co_outcome' = "returned"
                  /\ co_served' = Append(co_served,
                         Served(cache_status, "returned", co_work', ops,
                                valid, final_query, 0))
                  /\ IF ok
                     THEN \E value \in {StoredDict(final_query, <<>>, <<>>,
                                                   "results")} :
                             /\ store' = CacheSetItem(store, order, maxsize,
                                                      co_key, value).store
                             /\ order' = CacheSetItem(store, order, maxsize,
                                                      co_key, value).order
                     ELSE UNCHANGED <<store, order>>
    /\ co_pc' = "done"
    /\ UNCHANGED <<co_kind, co_question, co_schema, co_key, cache_status,
                   generated_query, final_query, co_history, applied_rules,
                   constructed, cache_size, maxsize, trace, result>>

\* ---- the lookup alone, over every kind of stored value ----

StoredValues ==
    { StoredText(""), StoredText("MATCH (n) RETURN n.name"),
      StoredList(<<>>), StoredList(<<"MATCH (n) RETURN n">>),
      StoredInt("0"), StoredInt("1"), StoredNone,
      StoredDict("", <<>>, <<>>, None) }

\* the schema of the requests whose keys are stored and looked up
LookupSchema(kind) == CHOOSE schema \in SchemasOf(kind) : schema.items = <<>>

\* lru_cache_manager.set_data(key, value)
SetValue(q, value) ==
    /\ co_pc \in {"idle", "done"}
    /\ \E key \in {LookupKey(co_kind, q, LookupSchema(co_kind))} :
          /\ store' = CacheSetItem(store, order, maxsize, key, value).store
          /\ order' = CacheSetItem(store, order, maxsize, key, value).order
    /\ co_pc' = "idle"
    /\ UNCHANGED <<co_kind, co_question, co_schema, co_key, cache_status,
                   generated_query, final_query, co_history, applied_rules,
                   co_work, co_outcome, co_served, constructed, cache_size,
                   maxsize, trace, result>>

SetAnyValue == \E q \in Questions, value \in StoredValues : SetValue(q, value)

\* cached = get_data(key), then "if cached:" chooses the hit or the miss
\* path
LookupOnly(q) ==
    /\ co_pc \in {"idle", "done"}
    /\ \E key \in {LookupKey(co_kind, q, LookupSchema(co_kind))} :
          /\ co_key' = key
          /\ order' = CacheGet(store, order, key).order
          /\ cache_status' = IF IsHit(key) THEN "HIT" ELSE "MISS"
          /\ final_query' = IF IsHit(key) THEN store[key].query ELSE None
    /\ co_question' = q
    /\ co_schema' = LookupSchema(co_kind)
    /\ co_work' = <<"lookup">>
    /\ co_pc' = "done"
    /\ UNCHANGED <<co_kind, generated_query, co_history, applied_rules,
                   co_outcome, co_served, constructed, cache_size, maxsize,
                   store, trace, result>>

LookupAny == \E q \in Questions : LookupOnly(q)

---------------------------------------------------------------------------
(* MemoryEfficientCache: pruning, pickle, zlib over the DataManager *)

\* Python values handed to set_data: a dict with a "query" and possibly a
\* "context" list, or a str
DictValue(query, has_context, context) ==
    [type |-> "dict", query |-> query, has_context |-> has_context,
     context |-> context]

StrValue(text) ==
    [type |-> "str", query |-> text, has_context |-> FALSE, context |-> <<>>]

NoneValue ==
    [type |-> "NoneType", query |-> "", has_context |-> FALSE,
     context |-> <<>>]

Contexts ==
    { <<>>, <<"A">>, <<"A", "B">>, <<"A", "A", "A">>, <<"A", "B", "C">>,
      <<"A", "A", "A", "A">> }

MecValues ==
    {DictValue("MATCH (n) RETURN n", TRUE, c) : c \in Contexts}
    \cup {DictValue("MATCH (n) RETURN n", FALSE, <<>>), StrValue("text")}

MecKeys == {"small", "large"}

\* Faulty variant: the last max_context_items items are kept
PruneContextKeepLast(context, limit) ==
    IF Len(context) <= limit
    THEN [context |-> context, removed |-> 0]
    ELSE [context |-> SubSeq(context, Len(context) - limit + 1, Len(context)),
          removed |-> Len(context) - limit]

\* _prune_context on a list: context[:self.max_context_items]
prune_context(context, limit) ==
    IF Len(context) <= limit
    THEN [context |-> context, removed |-> 0]
    ELSE [context |-> SubSeq(context, 1, limit),
          removed |-> Len(context) - limit]

\* _prune_value
prune_value(value, limit) ==
    IF value.type # "dict" THEN [value |-> value, was_pruned |-> FALSE]
    ELSE IF value.has_context
            /\ prune_context(value.context, limit).removed > 0
         THEN [value |-> [value EXCEPT !.context =
                                    prune_context(value.context, limit).context],
               was_pruned |-> TRUE]
         ELSE [value |-> value, was_pruned |-> FALSE]

\* One byte of a serialization: a symbol, and how many times in a row it
\* stands (1 in a pickle, the run length in compressed data).
Byte(sym, run) == [sym |-> sym, run |-> run]

Bytes(syms) == [i \in 1..Len(syms) |-> Byte(syms[i], 1)]

\* pickle.dumps: a type mark, the text, and for a context list its items
\* between "[" and "]"
PickleDumps(value) ==
    Bytes(<<value.type, value.query>>
          \o (IF value.has_context THEN <<"[">> \o value.context \o <<"]">>
              ELSE <<>>))

\* pickle.loads
PickleLoads(data) ==
    LET has == Len(data) > 2
    IN [type |-> data[1].sym, query |-> data[2].sym, has_context |-> has,
        context |-> IF has
                    THEN [i \in 1..(Len(data) - 4) |-> data[i + 3].sym]
                    ELSE <<>>]

RECURSIVE RunLengths(_)
\* the runs of equal symbols of a serialization
RunLengths(data) ==
    IF Len(data) <= 1 THEN data
    ELSE LET rest == RunLengths(Tail(data))
         IN IF rest[1].sym = data[1].sym
            THEN <<Byte(data[1].sym, rest[1].run + 1)>> \o Tail(rest)
            ELSE <<data[1]>> \o rest

\* zlib.compress: a header, then the data with its repetitions folded
ZlibCompress(data) == <<Byte("zlib", 0)>> \o RunLengths(data)

RECURSIVE Unfold(_)
Unfold(data) ==
    IF data = <<>> THEN <<>>
    ELSE [i \in 1..data[1].run |-> Byte(data[1].sym, 1)] \o Unfold(Tail(data))

\* zlib.decompress
ZlibDecompress(data) == Unfold(Tail(data))

\* _compress: above the threshold, and only when at least 10% is saved
compress(data, threshold) ==
    IF Len(data) <= threshold THEN [data |-> data, was_compressed |-> FALSE]
    ELSE IF 10 * Len(ZlibCompress(data)) < 9 * Len(data)
         THEN [data |-> ZlibCompress(data), was_compressed |-> TRUE]
         ELSE [data |-> data, was_compressed |-> FALSE]

\* the dict set_data stores
CachedValue(was_compressed, data, original_size) ==
    [compressed |-> was_compressed, data |-> data,
     original_size |-> original_size, stored_size |-> Len(data)]

NoStats ==
    [total_sets |-> 0, compressed_entries |-> 0, uncompressed_entries |-> 0,
     pruned_entries |-> 0, original_size_bytes |-> 0, stored_size_bytes |-> 0]

MecIdle ==
    /\ compression_threshold = 0
    /\ max_context_items = 0
    /\ stats = NoStats
    /\ mec_last = EmptyStore
    /\ mec_key = ""
    /\ mec_got = NoneValue
    /\ mec_ops = 0

\* MemoryEfficientCache.__init__
MecInit ==
    /\ compression_threshold \in Thresholds
    /\ max_context_items \in 0..MaxContextItems
    /\ stats = NoStats
    /\ mec_last = EmptyStore
    /\ mec_key = ""
    /\ mec_got = NoneValue
    /\ mec_ops = 0
    /\ constructed = TRUE
    /\ cache_size \in 1..MaxCapacity
    /\ maxsize = create_data_manager_cache(cache_size)
    /\ store = EmptyStore
    /\ order = <<>>
    /\ trace = <<>>
    /\ result = None

\* MemoryEfficientCache.set_data
MecSet(key, value) ==
    /\ mec_ops < MaxMecOps
    /\ \E pruned \in {prune_value(value, max_context_items)} :
       \E serialized \in {PickleDumps(pruned.value)} :
       \E packed \in {compress(serialized, compression_threshold)} :
       \E r \in {CacheSetItem(store, order, maxsize, key,
                              CachedValue(packed.was_compressed, packed.data,
                                          Len(serialized)))} :
          /\ stats' =
                [total_sets |-> stats.total_sets + 1,
                 pruned_entries |-> stats.pruned_entries
                                    + (IF pruned.was_pruned THEN 1 ELSE 0),
                 original_size_bytes |-> stats.original_size_bytes
                                         + Len(serialized),
                 stored_size_bytes |-> stats.stored_size_bytes
                                       + Len(packed.data),
                 compressed_entries |-> stats.compressed_entries
                                    + (IF packed.was_compressed THEN 1 ELSE 0),
                 uncompressed_entries |-> stats.uncompressed_entries
                                    + (IF packed.was_compressed THEN 0 ELSE 1)]
          /\ store' = r.store
          /\ order' = r.order
          /\ mec_last' = [k \in DOMAIN r.store |->
                             IF k = key THEN value ELSE mec_last[k]]
    /\ mec_ops' = mec_ops + 1
    /\ UNCHANGED <<compression_threshold, max_context_items, mec_key, mec_got,
                   constructed, cache_size, maxsize, trace, result>>

MecSetData == \E key \in MecKeys, value \in MecValues : MecSet(key, value)

\* MemoryEfficientCache.get_data
MecGet(key) ==
    /\ mec_ops < MaxMecOps
    /\ \E cached \in {CacheGet(store, order, key)} :
          /\ order' = cached.order
          /\ mec_got' =
                IF key \notin DOMAIN store THEN NoneValue
                ELSE PickleLoads(IF cached.value.compressed
                                 THEN ZlibDecompress(cached.value.data)
                                 ELSE cached.value.data)
    /\ mec_key' = key
    /\ mec_ops' = mec_ops + 1
    /\ UNCHANGED <<compression_threshold, max_context_items, stats, mec_last,
                   constructed, cache_size, maxsize, store, trace, result>>

MecGetData == \E key \in MecKeys : MecGet(key)

---------------------------------------------------------------------------
(* Two requests that share one CypherPostProcessor (the module-level       *)
(* post_processor of main): each runs lines 295-296 of process_question,   *)
(* final_query = post_processor.process(generated_query) and               *)
(* applied_rules = post_processor.get_applied_rules(); the instance has no *)
(* lock, so the statements of the two calls interleave.                    *)

Threads == {1, 2}

NotStarted == "not started"

ShareIdle ==
    /\ sh_pc = [t \in Threads |-> NotStarted]
    /\ sh_query = [t \in Threads |-> None]
    /\ sh_text = [t \in Threads |-> <<>>]
    /\ sh_rules = [t \in Threads |-> <<>>]

\* the request's synthesis has returned generated_query; process is entered
EnterProcess(t, q) ==
    /\ sh_pc[t] = NotStarted
    /\ sh_pc' = [sh_pc EXCEPT ![t] = "clear"]
    /\ sh_query' = [sh_query EXCEPT ![t] = q]
    /\ sh_text' = [sh_text EXCEPT ![t] = QueryText(q)]
    /\ UNCHANGED <<sh_rules, rules_applied, pp_query, pp_result, pp_steps,
                   pp_calls>>

\* line 9: self.rules_applied = []
ClearRules(t) ==
    /\ sh_pc[t] = "clear"
    /\ rules_applied' = <<>>
    /\ sh_pc' = [sh_pc EXCEPT ![t] = "rule1"]
    /\ UNCHANGED <<sh_query, sh_text, sh_rules, pp_query, pp_result, pp_steps,
                   pp_calls>>

RulePc(i) == <<"rule1", "rule2", "rule3", "rule4", "rule5", "get">>[i]

\* lines 11-15: query = self.<rule i>(query), which appends to
\* self.rules_applied
RunRule(t, i) ==
    /\ sh_pc[t] = RulePc(i)
    /\ \E r \in {ApplyRule(RuleOrder[i], sh_text[t])} :
          /\ sh_text' = [sh_text EXCEPT ![t] = r.text]
          /\ rules_applied' = rules_applied \o r.rules
    /\ sh_pc' = [sh_pc EXCEPT ![t] = RulePc(i + 1)]
    /\ UNCHANGED <<sh_query, sh_rules, pp_query, pp_result, pp_steps,
                   pp_calls>>

\* get_applied_rules: return self.rules_applied.copy()
GetAppliedRules(t) ==
    /\ sh_pc[t] = "get"
    /\ sh_rules' = [sh_rules EXCEPT ![t] = rules_applied]
    /\ sh_pc' = [sh_pc EXCEPT ![t] = "done"]
    /\ UNCHANGED <<sh_query, sh_text, rules_applied, pp_query, pp_result,
                   pp_steps, pp_calls>>

---------------------------------------------------------------------------
(* Two requests that share one DataManager.  DataManager has no lock, and  *)
(* cachetools' LRUCache is not synchronized: self.cache[key] = value is    *)
(* Cache.__setitem__ (room is made, then the item is assigned and counted) *)
(* followed by the recency update, and self.cache.get(key) is a read       *)
(* followed by the recency update; the statements of two calls interleave. *)

ConcKeys == {"k1", "k2"}

ConcIdle ==
    /\ currsize = 0
    /\ cc_pc = [t \in Threads |-> "idle"]
    /\ cc_key = [t \in Threads |-> ""]
    /\ cc_value = [t \in Threads |-> None]
    /\ cc_diff = [t \in Threads |-> 0]
    /\ cc_found = [t \in Threads |-> None]
    /\ cc_raised = [t \in Threads |-> "none"]
    /\ cc_started = 0
    /\ cc_sets = <<>>

\* the shared LRUDataManager of main()
ConcInit ==
    /\ ConcIdle
    /\ constructed = TRUE
    /\ cache_size \in 1..MaxCapacity
    /\ maxsize = create_data_manager_cache(cache_size)
    /\ store = EmptyStore
    /\ order = <<>>
    /\ trace = <<>>
    /\ result = None

\* a request computes its key and calls get_data (lines 276-278)
BeginLookup(t, key) ==
    /\ cc_pc[t] = "idle"
    /\ cc_started < MaxConcRequests
    /\ cc_started' = cc_started + 1
    /\ cc_key' = [cc_key EXCEPT ![t] = key]
    /\ cc_pc' = [cc_pc EXCEPT ![t] = "get"]
    /\ cc_raised' = [cc_raised EXCEPT ![t] = "none"]
    /\ UNCHANGED <<currsize, cc_value, cc_diff, cc_found, cc_sets, constructed,
                   cache_size, maxsize, store, order, trace, result>>

\* self.cache.get(key): an absent key gives None and the request goes on to
\* synthesize; a present key is made the most recent and the request is
\* served from the cache.
GetData(t) ==
    /\ cc_pc[t] = "get"
    /\ IF cc_key[t] \in DOMAIN store
       THEN /\ cc_found' = [cc_found EXCEPT ![t] = store[cc_key[t]]]
            /\ order' = Touch(order, cc_key[t])
            /\ cc_pc' = [cc_pc EXCEPT ![t] = "idle"]
       ELSE /\ cc_found' = [cc_found EXCEPT ![t] = None]
            /\ order' = order
            /\ cc_pc' = [cc_pc EXCEPT ![t] = "synth"]
    /\ UNCHANGED <<currsize, cc_key, cc_value, cc_diff, cc_raised, cc_started,
                   cc_sets, constructed, cache_size, maxsize, store, trace,
                   result>>

\* the miss path up to the value to store (lines 289-303)
Synthesize(t, q) ==
    /\ cc_pc[t] = "synth"
    /\ cc_value' = [cc_value EXCEPT ![t] = q]
    /\ cc_pc' = [cc_pc EXCEPT ![t] = "set_room"]
    /\ UNCHANGED <<currsize, cc_key, cc_diff, cc_found, cc_raised, cc_started,
                   cc_sets, constructed, cache_size, maxsize, store, order,
                   trace, result>>

RECURSIVE PopItems(_, _, _, _)
\* "while self.currsize + size > maxsize: self.popitem()": popitem takes
\* the first key of the recency order and raises KeyError when there is
\* none, or when that key is not in the cache
PopItems(st, ord, count, limit) ==
    IF count + 1 <= limit
    THEN [store |-> st, order |-> ord, currsize |-> count, raised |-> "none"]
    ELSE IF ord = <<>> \/ ord[1] \notin DOMAIN st
         THEN [store |-> st, order |-> ord, currsize |-> count,
               raised |-> "KeyError"]
         ELSE PopItems([k \in DOMAIN st \ {ord[1]} |-> st[k]], Tail(ord),
                       count - 1, limit)

\* Cache.__setitem__, first part: room is made for a key that is not in
\* the cache, and diffsize is computed
SetRoom(t) ==
    /\ cc_pc[t] = "set_room"
    /\ \E r \in {IF cc_key[t] \in DOMAIN store
                 THEN [store |-> store, order |-> order,
                       currsize |-> currsize, raised |-> "none"]
                 ELSE PopItems(store, order, currsize, maxsize)} :
          /\ store' = r.store
          /\ order' = r.order
          /\ currsize' = r.currsize
          /\ cc_raised' = [cc_raised EXCEPT ![t] = r.raised]
          /\ cc_pc' = [cc_pc EXCEPT ![t] =
                          IF r.raised = "none" THEN "set_item" ELSE "idle"]
          /\ cc_diff' = [cc_diff EXCEPT ![t] =
                            IF cc_key[t] \in DOMAIN r.store THEN 0 ELSE 1]
    /\ UNCHANGED <<cc_key, cc_value, cc_found, cc_started, cc_sets,
                   constructed, cache_size, maxsize, trace, result>>

\* Cache.__setitem__, second part: self.__data[key] = value and
\* self.__currsize += diffsize
SetItem(t) ==
    /\ cc_pc[t] = "set_item"
    /\ store' = [k \in DOMAIN store \cup {cc_key[t]} |->
                    IF k = cc_key[t] THEN cc_value[t] ELSE store[k]]
    /\ currsize' = currsize + cc_diff[t]
    /\ cc_pc' = [cc_pc EXCEPT ![t] = "set_update"]
    /\ UNCHANGED <<cc_key, cc_value, cc_diff, cc_found, cc_raised, cc_started,
                   cc_sets, constructed, cache_size, maxsize, order, trace,
                   result>>

\* LRUCache.__setitem__, last statement: the key becomes the most recent;
\* set_data returns
SetUpdate(t) ==
    /\ cc_pc[t] = "set_update"
    /\ order' = Touch(order, cc_key[t])
    /\ cc_sets' = Append(cc_sets, [thread |-> t, key |-> cc_key[t],
                                   value |-> cc_value[t]])
    /\ cc_pc' = [cc_pc EXCEPT ![t] = "idle"]
    /\ UNCHANGED <<currsize, cc_key, cc_value, cc_diff, cc_found, cc_raised,
                   cc_started, constructed, cache_size, maxsize, store, trace,
                   result>>

---------------------------------------------------------------------------
(* Specifications *)

SynthNext ==
    \/ Call /\ UNCHANGED <<cacheVars, keyVars, rewriteVars, selectVars, pipeVars, mecVars, shareVars, concVars>>
    \/ Generate /\ UNCHANGED <<cacheVars, keyVars, rewriteVars, selectVars, pipeVars, mecVars, shareVars, concVars>>
    \/ Repair /\ UNCHANGED <<cacheVars, keyVars, rewriteVars, selectVars, pipeVars, mecVars, shareVars, concVars>>
    \/ Validate /\ UNCHANGED <<cacheVars, keyVars, rewriteVars, selectVars, pipeVars, mecVars, shareVars, concVars>>

InitSynth == SynthInit /\ CacheInit /\ KeyIdle /\ RewriteIdle /\ SelectIdle /\ PipeIdle /\ MecIdle /\ ShareIdle /\ ConcIdle

SpecSynth == InitSynth /\ [][SynthNext]_vars

\* Every collaborator call returns: a pending generator, repairer or
\* validator call is eventually answered.
SpecSynthFair ==
    /\ SpecSynth
    /\ WF_vars(Generate /\ UNCHANGED <<cacheVars, keyVars, rewriteVars, selectVars, pipeVars, mecVars, shareVars, concVars>>)
    /\ WF_vars(Repair /\ UNCHANGED <<cacheVars, keyVars, rewriteVars, selectVars, pipeVars, mecVars, shareVars, concVars>>)
    /\ WF_vars(Validate /\ UNCHANGED <<cacheVars, keyVars, rewriteVars, selectVars, pipeVars, mecVars, shareVars, concVars>>)

\* generate_with_refinement with collaborators that may be unavailable
SynthFailNext ==
    \/ SynthNext
    \/ GenerateRaises /\ UNCHANGED <<cacheVars, keyVars, rewriteVars, selectVars, pipeVars, mecVars, shareVars, concVars>>
    \/ RepairRaises /\ UNCHANGED <<cacheVars, keyVars, rewriteVars, selectVars, pipeVars, mecVars, shareVars, concVars>>
    \/ ValidateUnavailable /\ UNCHANGED <<cacheVars, keyVars, rewriteVars, selectVars, pipeVars, mecVars, shareVars, concVars>>

SpecSynthFail == InitSynth /\ [][SynthFailNext]_vars

CacheNext ==
    \/ Create /\ UNCHANGED <<synthVars, keyVars, rewriteVars, selectVars, pipeVars, mecVars, shareVars, concVars>>
    \/ set_data /\ UNCHANGED <<synthVars, keyVars, rewriteVars, selectVars, pipeVars, mecVars, shareVars, concVars>>
    \/ get_data /\ UNCHANGED <<synthVars, keyVars, rewriteVars, selectVars, pipeVars, mecVars, shareVars, concVars>>
    \/ process_record /\ UNCHANGED <<synthVars, keyVars, rewriteVars, selectVars, pipeVars, mecVars, shareVars, concVars>>

InitCache == SynthIdle /\ CacheInit /\ KeyIdle /\ RewriteIdle /\ SelectIdle /\ PipeIdle /\ MecIdle /\ ShareIdle /\ ConcIdle

SpecCache == InitCache /\ [][CacheNext]_vars

KeyNext == \E r \in Requests : ComputeKeys(r) /\ UNCHANGED <<synthVars, cacheVars, rewriteVars, selectVars, pipeVars, mecVars, shareVars, concVars>>

InitKey == SynthIdle /\ CacheInit /\ KeyInit /\ RewriteIdle /\ SelectIdle /\ PipeIdle /\ MecIdle /\ ShareIdle /\ ConcIdle

SpecKey == InitKey /\ [][KeyNext]_vars

RewriteNext ==
    \/ ProcessQuery /\ UNCHANGED <<synthVars, cacheVars, keyVars, selectVars, pipeVars, mecVars, shareVars, concVars>>
    \/ ProcessAgain /\ UNCHANGED <<synthVars, cacheVars, keyVars, selectVars, pipeVars, mecVars, shareVars, concVars>>

InitRewrite == SynthIdle /\ CacheInit /\ KeyIdle /\ RewriteIdle /\ SelectIdle /\ PipeIdle /\ MecIdle /\ ShareIdle /\ ConcIdle

SpecRewrite == InitRewrite /\ [][RewriteNext]_vars

SelectNext ==
    SelectTopK /\ UNCHANGED <<synthVars, cacheVars, keyVars, rewriteVars, pipeVars, mecVars, shareVars, concVars>>

InitSelect == SynthIdle /\ CacheInit /\ KeyIdle /\ RewriteIdle /\ SelectInit /\ PipeIdle /\ MecIdle /\ ShareIdle /\ ConcIdle

SpecSelect == InitSelect /\ [][SelectNext]_vars

PipeNext ==
    \/ Receive /\ UNCHANGED <<synthVars, keyVars, rewriteVars, selectVars, mecVars, shareVars, concVars>>
    \/ SelectAndSynthesize
          /\ UNCHANGED <<cacheVars, keyVars, rewriteVars, selectVars, mecVars, shareVars, concVars>>
    \/ Generate /\ UNCHANGED <<cacheVars, keyVars, rewriteVars, selectVars,
                                pipeVars, mecVars, shareVars, concVars>>
    \/ Repair /\ UNCHANGED <<cacheVars, keyVars, rewriteVars, selectVars,
                              pipeVars, mecVars, shareVars, concVars>>
    \/ Validate /\ UNCHANGED <<cacheVars, keyVars, rewriteVars, selectVars,
                                pipeVars, mecVars, shareVars, concVars>>
    \/ RewriteAndStore /\ UNCHANGED <<synthVars, keyVars, selectVars, mecVars, shareVars, concVars>>
    \/ Execute /\ UNCHANGED <<synthVars, keyVars, rewriteVars, selectVars, mecVars, shareVars, concVars>>

InitPipe == PipeInit /\ KeyIdle /\ RewriteIdle /\ SelectIdle /\ MecIdle /\ ShareIdle /\ ConcIdle

SpecPipe == InitPipe /\ [][PipeNext]_vars

MecNext ==
    \/ MecSetData /\ UNCHANGED <<synthVars, keyVars, rewriteVars, selectVars, pipeVars, shareVars, concVars>>
    \/ MecGetData /\ UNCHANGED <<synthVars, keyVars, rewriteVars, selectVars, pipeVars, shareVars, concVars>>

InitMec == SynthIdle /\ KeyIdle /\ RewriteIdle /\ SelectIdle /\ PipeIdle /\ MecInit /\ ShareIdle /\ ConcIdle

SpecMec == InitMec /\ [][MecNext]_vars

\* two requests on one post-processor
ShareNext ==
    \/ \E t \in Threads, q \in Queries :
          EnterProcess(t, q) /\ UNCHANGED <<synthVars, cacheVars, keyVars, selectVars, pipeVars, mecVars, concVars>>
    \/ \E t \in Threads :
          ClearRules(t) /\ UNCHANGED <<synthVars, cacheVars, keyVars, selectVars, pipeVars, mecVars, concVars>>
    \/ \E t \in Threads, i \in 1..Len(RuleOrder) :
          RunRule(t, i) /\ UNCHANGED <<synthVars, cacheVars, keyVars, selectVars, pipeVars, mecVars, concVars>>
    \/ \E t \in Threads :
          GetAppliedRules(t) /\ UNCHANGED <<synthVars, cacheVars, keyVars, selectVars, pipeVars, mecVars, concVars>>

InitShare == SynthIdle /\ CacheInit /\ KeyIdle /\ RewriteIdle /\ SelectIdle /\ PipeIdle /\ MecIdle /\ ShareIdle /\ ConcIdle

SpecShare == InitShare /\ [][ShareNext]_vars

\* two requests on one cache
ConcNext ==
    \/ \E t \in Threads, key \in ConcKeys :
          BeginLookup(t, key) /\ UNCHANGED <<synthVars, keyVars, rewriteVars, selectVars, pipeVars, mecVars, shareVars>>
    \/ \E t \in Threads :
          GetData(t) /\ UNCHANGED <<synthVars, keyVars, rewriteVars, selectVars, pipeVars, mecVars, shareVars>>
    \/ \E t \in Threads, q \in Queries :
          Synthesize(t, q) /\ UNCHANGED <<synthVars, keyVars, rewriteVars, selectVars, pipeVars, mecVars, shareVars>>
    \/ \E t \in Threads :
          SetRoom(t) /\ UNCHANGED <<synthVars, keyVars, rewriteVars, selectVars, pipeVars, mecVars, shareVars>>
    \/ \E t \in Threads :
          SetItem(t) /\ UNCHANGED <<synthVars, keyVars, rewriteVars, selectVars, pipeVars, mecVars, shareVars>>
    \/ \E t \in Threads :
          SetUpdate(t) /\ UNCHANGED <<synthVars, keyVars, rewriteVars, selectVars, pipeVars, mecVars, shareVars>>

InitConc == SynthIdle /\ KeyIdle /\ RewriteIdle /\ SelectIdle /\ PipeIdle /\ MecIdle /\ ShareIdle /\ ConcInit

SpecConc == InitConc /\ [][ConcNext]_vars

\* set_data and the coordinator's lookup, for every kind of value
LookupNext ==
    \/ SetAnyValue /\ UNCHANGED <<synthVars, keyVars, rewriteVars, selectVars, mecVars, shareVars, concVars>>
    \/ LookupAny /\ UNCHANGED <<synthVars, keyVars, rewriteVars, selectVars, mecVars, shareVars, concVars>>

SpecLookup == InitPipe /\ [][LookupNext]_vars

---------------------------------------------------------------------------
(* Properties of generate_with_refinement *)

CountOp(op) == Cardinality({i \in 1..Len(calls) : calls[i].op = op})

Validations == SelectSeq(calls, LAMBDA c : c.op = "val")

AllRejected ==
    /\ Validations # <<>>
    /\ \A i \in 1..Len(Validations) : ~Validations[i].valid

Ops == [i \in 1..Len(calls) |-> calls[i].op]

C2_EarlyExitOnSecondAttempt ==
    (/\ Len(Validations) >= 2
     /\ ~Validations[1].valid
     /\ Validations[2].valid) =>
        /\ pc = "done"
        /\ outcome = "Valid"
        /\ Ops = <<"gen", "val", "rep", "val">>
        /\ Len(query_history) = 2
        /\ ret = <<calls[3].out_query, query_history>>
        /\ query_history = <<calls[1].out_query, calls[3].out_query>>

C2_Witness ==
    /\ pc = "done"
    /\ Len(Validations) = 2
    /\ ~Validations[1].valid
    /\ Validations[2].valid
    /\ calls[1].out_query # calls[3].out_query

C4_CallerCanTellUnvalidated ==
    /\ (pc = "done" /\ outcome = "Failed" /\ calls # <<>>) =>
          /\ ret[1] = query_history[Len(query_history)]
          /\ ret[2] = query_history
          /\ Len(query_history) = CountOp("gen") + CountOp("rep")
    /\ (pc = "done" /\ prev.outcome # "none" /\ ret = prev.ret) =>
          outcome = prev.outcome

\* C5: a call of generate_with_refinement that has started eventually
\* returns, whatever the validator answers.
C5_EventuallyReturns ==
    (pc \in {"generate", "repair", "validate"}) ~> (pc = "done")

C5_Witness ==
    /\ pc = "done"
    /\ max_iterations = MaxIterations
    /\ AllRejected
    /\ Len(Validations) = max_iterations

---------------------------------------------------------------------------
(* Properties of the cache store *)

LastOp == trace[Len(trace)]

\* An operation that touched its key: a store that did not raise, or a
\* get_data that found the key.
Accessed(e) == e.raised = "none" /\ (e.name # "get_data" \/ e.hit)

AccessTimes(k) == {i \in 1..Len(trace) : trace[i].key = k /\ Accessed(trace[i])}

LastAccess(k) ==
    IF AccessTimes(k) = {} THEN 0
    ELSE CHOOSE i \in AccessTimes(k) : \A j \in AccessTimes(k) : j <= i

\* The cached key whose most recent access is oldest.
LeastRecentlyAccessed ==
    CHOOSE k \in DOMAIN store :
        \A j \in DOMAIN store : LastAccess(k) <= LastAccess(j)

\* C6: a DataManager created with capacity C >= 1 never holds more than C
\* entries, whatever set_data, get_data and process_record calls were made.
C6_SizeWithinCapacity ==
    (constructed /\ cache_size >= 1) =>
        /\ Cardinality(DOMAIN store) <= cache_size
        /\ Len(order) = Cardinality(DOMAIN store)

C6_Witness ==
    /\ constructed
    /\ cache_size = MaxCapacity
    /\ Cardinality(DOMAIN store) = cache_size
    /\ \E i \in 1..Len(trace) : trace[i].evicted # None
    /\ \E i \in 1..Len(trace) : trace[i].name = "process_record"

\* C7: a set_data (or process_record) that stores a new key into a full
\* cache evicts exactly one entry, the one whose most recent access (a
\* get_data hit or a store) is oldest; every other entry is kept.
C7_EvictsLeastRecentlyAccessed ==
    [][LET e == trace'[Len(trace')] IN
       (/\ Len(trace') = Len(trace) + 1
        /\ e.name \in {"set_data", "process_record"}
        /\ cache_size >= 1
        /\ e.key \notin DOMAIN store
        /\ Cardinality(DOMAIN store) = cache_size) =>
           /\ DOMAIN store' = (DOMAIN store \ {LeastRecentlyAccessed}) \cup {e.key}
           /\ e.evicted = LeastRecentlyAccessed
           /\ \A k \in DOMAIN store' \ {e.key} : store'[k] = store[k]]_vars

\* Capacity 2: two inserts, a get_data hit on the first-inserted key, then a
\* third insert that evicts the second-inserted key.
C7_Witness ==
    /\ cache_size = 2
    /\ Len(trace) = 4
    /\ trace[1].name = "set_data" /\ trace[2].name = "set_data"
    /\ trace[3].name = "get_data" /\ trace[3].hit
    /\ trace[3].key = trace[1].key
    /\ trace[4].name = "set_data"
    /\ trace[4].evicted = trace[2].key
    /\ trace[1].key \in DOMAIN store

\* C8: get_data on a key that is not cached returns None without raising
\* and leaves the entries and their recency order as they were.
C8_MissReturnsNoneAndKeepsCache ==
    [][LET e == trace'[Len(trace')] IN
       (/\ Len(trace') = Len(trace) + 1
        /\ e.name = "get_data"
        /\ e.key \notin DOMAIN store) =>
           /\ result' = None
           /\ e.raised = "none"
           /\ store' = store
           /\ order' = order]_vars

C8_Witness ==
    /\ Len(trace) >= 3
    /\ LastOp.name = "get_data" /\ ~LastOp.hit /\ LastOp.raised = "none"
    /\ trace[Len(trace) - 1].name = "get_data" /\ trace[Len(trace) - 1].hit
    /\ result = None
    /\ Len(order) >= 2

\* C9 as stated: no cache object with capacity <= 0 exists, and no store
\* operation is where a bad capacity is reported.
C9_NoCacheWithNonPositiveCapacity ==
    /\ constructed => cache_size >= 1
    /\ \A i \in 1..Len(trace) : trace[i].raised # "ValueError"

---------------------------------------------------------------------------
(* Properties of the cache key *)

\* Python's == on the modelled values: dicts are equal when they have the
\* same keys with equal values, whatever the order of their items.
RECURSIVE PyEq(_, _)
PyEq(a, b) ==
    /\ a.kind = b.kind
    /\ CASE a.kind = "str" -> a.atom = b.atom
         [] a.kind = "list" ->
               /\ Len(a.items) = Len(b.items)
               /\ \A i \in 1..Len(a.items) : PyEq(a.items[i][2], b.items[i][2])
         [] a.kind = "dict" ->
               /\ Len(a.items) = Len(b.items)
               /\ \A i \in 1..Len(a.items) :
                     \E j \in 1..Len(b.items) :
                        /\ a.items[i][1] = b.items[j][1]
                        /\ PyEq(a.items[i][2], b.items[j][2])

Computed(r) == keys[r] # NoKeys

\* C10: two requests with the same question text and pruned schemas that
\* are equal up to the order of dictionary keys at every nesting level have
\* the same cache keys.
C10_KeyIgnoresDictOrder ==
    \A r1 \in Requests, r2 \in Requests :
        (/\ Computed(r1) /\ Computed(r2)
         /\ req[r1].question = req[r2].question
         /\ PyEq(req[r1].pruned_schema, req[r2].pruned_schema)) =>
            keys[r1] = keys[r2]

\* Two schemas that differ in key order at the top level and inside a list.
C10_Witness ==
    /\ Computed(1) /\ Computed(2)
    /\ req[1].question = req[2].question
    /\ req[1].pruned_schema # req[2].pruned_schema
    /\ PyEq(req[1].pruned_schema, req[2].pruned_schema)
    /\ Len(req[1].pruned_schema.items) = 2
    /\ req[1].pruned_schema.items[1][1] # req[2].pruned_schema.items[1][1]
    /\ \E i \in 1..2 : req[1].pruned_schema.items[i][2].kind = "list"
    /\ req[1].pruned_schema.items[1][2] # req[2].pruned_schema.items[2][2]
    /\ keys[1] = keys[2]

---------------------------------------------------------------------------
(* Properties of the post-processor *)

Range(s) == {s[i] : i \in 1..Len(s)}

\* no leading or trailing whitespace and no two whitespace characters in a row
WhitespaceClean(s) ==
    /\ s # <<>> => ~IsSpace(s[1]) /\ ~IsSpace(s[Len(s)])
    /\ \A i \in 1..(Len(s) - 1) : ~(IsSpace(s[i]) /\ IsSpace(s[i + 1]))

\* the text holds a condition LOWER(var.prop) CONTAINS '...'
HasLowercaseContains(s) ==
    \E i \in 1..Len(s) :
        /\ s[i] = "LOWER" /\ At(s, i + 1) = "("
        /\ At(s, i + 3) = "." /\ At(s, i + 5) = ")"
        /\ At(s, i + 7) = "CONTAINS"

\* the text holds a condition var.prop = '...'
HasExactMatch(s) == \E i \in 1..Len(s) : WhereMatch(s, i) # 0

\* the text ends in a RETURN clause of bare variables
HasBareReturn(s) == \E i \in 1..Len(s) : ReturnMatch(s, i)

\* the entry a rule leaves in rules_applied
TrailName(rule) ==
    CASE rule = "enforce_lowercase_contains" -> "lowercase_contains"
      [] rule = "expand_node_returns" -> "expand_return"
      [] rule = "remove_apoc_calls" -> "remove_apoc"
      [] rule = "fix_property_names" -> "fix_property"
      [] rule = "clean_whitespace" -> "clean_whitespace"

TrailRank(entry) ==
    CASE entry = "lowercase_contains" -> 1
      [] entry = "expand_return" -> 2
      [] entry = "remove_apoc" -> 3
      [] entry = "fix_property" -> 4
      [] entry = "clean_whitespace" -> 5

C15_ProcessIdempotent ==
    [][(pp_calls > 0 /\ pp_calls' = pp_calls + 1 /\ pp_query' = pp_result)
          => pp_result' = pp_result]_vars

\* C16: every call of process starts from an empty audit trail, so that after
\* the call the trail holds only entries of this call, and it names a rule
\* other than the whitespace rule if and only if that rule's output differed
\* from its input in this call.
C16_TrailNamesExactlyChangingRules ==
    pp_calls > 0 =>
        /\ rules_applied = RulesOf(pp_steps)
        /\ \A k \in 1..(Len(pp_steps) - 1) :
               TrailName(pp_steps[k].rule) \in Range(rules_applied)
                   <=> pp_steps[k].after # pp_steps[k].before

\* C17: in every call of process the five rules run in the same fixed order,
\* each on the text the rule before it returned; the whitespace rule runs
\* last and is always the final entry of the audit trail, and the returned
\* text has no leading or trailing whitespace and no run of two or more
\* whitespace characters.
C17_FixedOrderWhitespaceLast ==
    pp_calls > 0 =>
        /\ [k \in 1..Len(pp_steps) |-> pp_steps[k].rule] =
             <<"enforce_lowercase_contains", "expand_node_returns",
               "remove_apoc_calls", "fix_property_names", "clean_whitespace">>
        /\ Len(pp_steps) = 5
        /\ pp_steps[1].before = pp_query
        /\ \A k \in 1..(Len(pp_steps) - 1) :
               pp_steps[k + 1].before = pp_steps[k].after
        /\ pp_result = pp_steps[Len(pp_steps)].after
        /\ rules_applied # <<>>
        /\ rules_applied[Len(rules_applied)] = "clean_whitespace"
        /\ \A i \in 1..(Len(rules_applied) - 1) :
               /\ rules_applied[i] # "clean_whitespace"
               /\ TrailRank(rules_applied[i]) <= TrailRank(rules_applied[i + 1])
        /\ WhitespaceClean(pp_result)

C17_Witness ==
    /\ pp_calls > 0
    /\ ~WhitespaceClean(pp_query)
    /\ pp_steps[1].after # pp_steps[1].before
    /\ pp_steps[4].after # pp_steps[4].before
    /\ pp_result # pp_steps[4].after
    /\ Len(rules_applied) >= 4

---------------------------------------------------------------------------
(* Properties of the exemplar selector *)

Min(a, b) == IF a <= b THEN a ELSE b

\* the indices of the exemplars the latest call returned
Returned == {top_k_indices[i] : i \in 1..Len(top_k_indices)}

\* where index e stands in the returned list
Position(e) == CHOOSE i \in 1..Len(top_k_indices) : top_k_indices[i] = e

\* C18: for an index of n >= 1 exemplars and every k >= 0, select_top_k
\* returns exactly min(k, n) exemplars (none when k = 0), ordered by
\* non-increasing similarity, and every returned exemplar is at least as
\* similar as every exemplar not returned.
C18_ReturnsMinKBestFirst ==
    (sel_returned /\ Len(exemplars) >= 1 /\ sel_k >= 0) =>
        /\ Len(selected) = Min(sel_k, Len(exemplars))
        /\ \A i \in 1..(Len(top_k_indices) - 1) :
               similarities[top_k_indices[i]]
                   >= similarities[top_k_indices[i + 1]]
        /\ \A e \in Returned : \A o \in (1..Len(exemplars)) \ Returned :
               similarities[e] >= similarities[o]

\* C19: when two exemplars have exactly equal similarity, select_top_k places
\* the one inserted first before the other, and prefers it when only one of
\* them fits in the top k.
C19_FirstInsertedWinsTies ==
    (sel_returned /\ sel_k >= 1) =>
        \A e, o \in 1..Len(exemplars) :
            (e < o /\ similarities[e] = similarities[o]) =>
                /\ o \in Returned => e \in Returned
                /\ (e \in Returned /\ o \in Returned)
                       => Position(e) < Position(o)

\* C20: select_top_k fails with an InvalidArgument error, returning no
\* exemplars, whenever k < 0 or the index holds zero exemplars.
C20_InvalidArgumentOnBadK ==
    (sel_returned /\ (sel_k < 0 \/ Len(exemplars) = 0)) =>
        /\ sel_raised = "InvalidArgument"
        /\ selected = <<>>

---------------------------------------------------------------------------
(* Properties of the coordinators *)

WorkSteps(work) == {work[i] : i \in 1..Len(work)}

\* C11: a request whose cache lookup hits returns the cached query with
\* status HIT, and selects no exemplars, calls neither the generator, the
\* repairer nor the validator, and rewrites nothing.
C11_HitReturnsCachedWithoutWork ==
    \A i \in 1..Len(co_served) :
       co_served[i].status = "HIT" =>
          /\ co_served[i].outcome = "returned"
          /\ co_served[i].key \in DOMAIN store
          /\ co_served[i].final = store[co_served[i].key].query
          /\ WorkSteps(co_served[i].work) \cap {"select", "synth", "rewrite"} = {}
          /\ co_served[i].ops = <<>>

\* C12: from an empty cache, when the first request's synthesis validated,
\* a second request for the same question and schema returns with status
\* HIT and calls neither the generator, the validator nor the repairer.
C12_SecondIdenticalRequestHits ==
    (/\ Len(co_served) >= 2
     /\ co_served[1].validated
     /\ co_served[2].question = co_served[1].question
     /\ co_served[2].schema = co_served[1].schema)
    => /\ co_served[2].status = "HIT"
       /\ co_served[2].outcome = "returned"
       /\ co_served[2].ops = <<>>

\* C13: a request of process_question or of the pipeline cell that misses
\* selects exemplars, synthesizes, rewrites and stores, once each and in
\* this order, then returns with status MISS; what is stored under the
\* looked-up key is the rewriter's output for the synthesized query.
C13_MissRunsPipelineOnceInOrder ==
    (co_kind # "run_query" /\ co_pc = "done" /\ cache_status = "MISS")
    => /\ SubSeq(co_work, 1, 5) =
             <<"lookup", "select", "synth", "rewrite", "store">>
       /\ WorkSteps(SubSeq(co_work, 6, Len(co_work)))
             \cap {"lookup", "select", "synth", "rewrite", "store"} = {}
       /\ co_outcome = "returned"
       /\ co_key \in DOMAIN store
       /\ store[co_key].query = final_query
       /\ pp_query = QueryText(generated_query)
       /\ final_query = Join(pp_result)
       /\ final_query # Join(QueryText(generated_query))

\* C27: a request of process_question that missed and produced a final
\* answer has stored it under the hashed answer key that the lookup of
\* lines 245-246 reads, has returned normally and has recorded one hit or
\* one miss on benchmark_stats.
C27_AnswerStoredAndCallReturns ==
    \A i \in 1..Len(co_served) :
       (/\ co_kind = "process_question"
        /\ co_served[i].status = "MISS"
        /\ "answer" \in WorkSteps(co_served[i].work))
       => /\ co_served[i].outcome = "returned"
          /\ HashedAnswerKey(co_served[i].question, co_served[i].schema)
                \in DOMAIN store
          /\ co_served[i].recorded = 1

\* C29: a query that process_question or the pipeline cell has stored in
\* the cache was accepted by the validator in the synthesis that produced
\* it.
C29_OnlyValidatedQueriesCached ==
    (/\ co_kind # "run_query"
     /\ co_pc \in {"execute", "done"}
     /\ cache_status = "MISS"
     /\ co_key \in DOMAIN store)
    => outcome = "Valid"

\* C30: the coordinator's lookup of a key under which a value is stored
\* takes the hit path, whatever the value.
C30_StoredEntryIsAHit ==
    (co_pc = "done" /\ co_key \in DOMAIN store) => cache_status = "HIT"

---------------------------------------------------------------------------
(* Further properties of generate_with_refinement *)

Attempts(cs) == {i \in 1..Len(cs) : cs[i].op \in {"gen", "rep"}}

\* C25: the repairer is called only directly after a validation that
\* rejected, within the iteration budget, and with the query and the error
\* message of that validation; every generated or repaired query is
\* validated once, directly after it was produced; no repairer call follows
\* an accepting validation.
C25_RepairOnlyAfterRejection ==
    /\ Cardinality(Attempts(calls)) <= max_iterations
    /\ \A i \in 1..Len(calls) :
          /\ calls[i].op = "rep" =>
                /\ i > 2
                /\ calls[i - 1].op = "val"
                /\ ~calls[i - 1].valid
                /\ calls[i - 1].arg_err \in Errors
                /\ calls[i].arg_err = calls[i - 1].arg_err
                /\ calls[i].arg_query = calls[i - 1].arg_query
                /\ calls[i].arg_query = calls[i - 2].out_query
          /\ calls[i].op \in {"gen", "rep"} =>
                /\ i < Len(calls) => /\ calls[i + 1].op = "val"
                                     /\ calls[i + 1].arg_query = calls[i].out_query
                /\ i = Len(calls) => pc = "validate"
          /\ calls[i].op = "val" =>
                /\ i > 1
                /\ calls[i - 1].op \in {"gen", "rep"}
                /\ calls[i].valid => i = Len(calls)

C25_Witness ==
    /\ pc = "done"
    /\ Len(calls) = 6
    /\ calls[3].op = "rep"
    /\ calls[5].op = "rep"
    /\ calls[5].arg_query # calls[3].arg_query
    /\ calls[5].arg_err # calls[3].arg_err
    /\ calls[6].valid

\* C23: an unavailable collaborator ends the synthesis with the exception:
\* the call in which the generator, the repairer or the validator's database
\* access failed is the last call of the synthesis, which raises; it is not
\* answered by a repair or counted as a rejected attempt.
C23_UnavailabilityPropagates ==
    \A i \in 1..Len(calls) :
       (\/ calls[i].out_query = Unavailable
        \/ calls[i].op = "val" /\ calls[i].arg_err = Unavailable)
       => /\ i = Len(calls)
          /\ pc = "done"
          /\ outcome = "Raised"

---------------------------------------------------------------------------
(* Further properties of the post-processor *)

\* the first position at which the pattern of expand_node_returns matches,
\* 0 if it matches nowhere
ReturnStart(s) ==
    IF \E i \in 1..Len(s) : ReturnMatch(s, i)
    THEN CHOOSE i \in 1..Len(s) :
            ReturnMatch(s, i) /\ \A m \in 1..(i - 1) : ~ReturnMatch(s, m)
    ELSE 0

RECURSIVE AttributeOwners(_, _)
\* the variables whose attributes the text names from position i on, one
\* entry per run of attributes of the same variable
AttributeOwners(s, i) ==
    IF i >= Len(s) THEN <<>>
    ELSE LET rest == AttributeOwners(s, i + 1)
         IN IF IsVar(s[i]) /\ s[i + 1] = "." /\ At(s, i - 1) # "."
               /\ (rest = <<>> \/ rest[1] # s[i])
            THEN <<s[i]>> \o rest
            ELSE rest

\* C26: when the query ends in RETURN and a comma-separated list of bare
\* variables, the return clause expand_node_returns produces names
\* attributes of every variable of the list, in the order of the list.
C26_ExpandKeepsEveryVariable ==
    (pp_calls > 0 /\ ReturnStart(pp_steps[2].before) > 0)
    => LET before == pp_steps[2].before
           at == ReturnStart(before)
       IN AttributeOwners(pp_steps[2].after, at) =
             GroupsEveryVariable(before, at)

---------------------------------------------------------------------------
(* Properties of the MemoryEfficientCache *)

\* the value the latest set_data for the key was given, with a context list
\* longer than max_context_items cut to its first max_context_items items
ExpectedValue(value) ==
    IF value.type = "dict" /\ value.has_context
       /\ Len(value.context) > max_context_items
    THEN [value EXCEPT !.context = SubSeq(value.context, 1, max_context_items)]
    ELSE value

\* C24: get_data of a key that was set and not evicted since returns the
\* value that was set, its context list cut to the first max_context_items
\* items if it was longer, whether the entry is stored compressed or not;
\* get_data of an absent key returns None.
C24_GetReturnsPrunedValue ==
    [][(mec_ops' = mec_ops + 1 /\ stats' = stats)
       => IF mec_key' \in DOMAIN store
          THEN mec_got' = ExpectedValue(mec_last[mec_key'])
          ELSE mec_got' = NoneValue]_vars

\* a compressed entry whose context was cut has been read back, and an
\* absent key has been looked up before
C24_Witness ==
    /\ mec_key \in DOMAIN store
    /\ store[mec_key].compressed
    /\ Len(mec_last[mec_key].context) > max_context_items
    /\ max_context_items > 0
    /\ mec_got = ExpectedValue(mec_last[mec_key])
    /\ mec_got # mec_last[mec_key]
    /\ stats.pruned_entries > 0

---------------------------------------------------------------------------
(* Properties of requests that run concurrently *)

\* C28: the applied-rules list a request obtains names only rules that
\* fired on the request's own query.
C28_RulesOfOwnQueryOnly ==
    \A t \in Threads :
       sh_pc[t] = "done" =>
          Range(sh_rules[t]) \subseteq Range(RulesOf(ProcessedQueries[sh_query[t]]))

Quiescent == \A t \in Threads : cc_pc[t] = "idle"

\* the latest set_data for the key that has returned
LastSet(key) ==
    cc_sets[CHOOSE i \in 1..Len(cc_sets) :
               /\ cc_sets[i].key = key
               /\ \A j \in (i + 1)..Len(cc_sets) : cc_sets[j].key # key]

C22_ConcurrentOpsAreAtomic ==
    Quiescent =>
       /\ Cardinality(DOMAIN store) <= maxsize
       /\ currsize = Cardinality(DOMAIN store)
       /\ Range(order) = DOMAIN store
       /\ Len(order) = Cardinality(DOMAIN store)
       /\ \A t \in Threads : cc_raised[t] = "none"

===========================================================================
